---------------------------- MODULE Spec2Model ----------------------------
(***************************************************************************)
(* Model of the SSH configuration parse/edit engine of ssh-tui             *)
(* (src/src/ssh_config.rs).                                                *)
(*                                                                         *)
(* Strings.  A Rust string is modelled as a sequence of atoms.  An atom is *)
(* an indivisible run of characters: " " and "\t" are the whitespace       *)
(* atoms, "#" the comment character, "\n" and "\r" the line terminators,   *)
(* "*" and "?" the wildcard characters, "0".."9", "+" and "-" the          *)
(* characters of a number; every other atom ("Host", "HostName", "a",      *)
(* "web", ...) is a run of characters none of which is whitespace, '#',    *)
(* a wildcard or a line terminator.  No two atoms used together spell a    *)
(* keyword, so a token is the keyword `host` exactly when it is the single *)
(* atom "Host", "host" or "HOST".                                          *)
(*                                                                         *)
(* The configuration file is the text on disk: one sequence of atoms with  *)
(* "\n" between the lines.                                                 *)
(***************************************************************************)
EXTENDS Integers, Sequences, FiniteSets, TLC

VARIABLES
    file,        \* text of the configuration file ("" when it does not exist)
    exists,      \* whether the configuration file exists
    dirExists,   \* whether the parent directory of the file exists
    prevFile,    \* text of the file before the last operation
    prevExists,  \* whether the file existed before the last operation
    prevDirExists, \* whether the directory existed before the last operation
    lastOp,      \* the last operation: its kind, arguments and result
    ops,         \* number of operations run so far
    entries,     \* Vec<HostEntry> returned by the last load
    out,         \* lines rendered by the last render step
    span,        \* Option<(usize, usize)> returned by the last find_host_block
    baseFile,    \* text of the file when a cycle of operations began ("" when
                 \* no cycle is followed)
    app          \* the App of the UI controller (<<>> when none is constructed)

vars == <<file, exists, dirExists, prevFile, prevExists, prevDirExists,
          lastOp, ops, entries, out, span, baseFile, app>>

-----------------------------------------------------------------------------
(* str primitives *)

IsWs(c) == c \in {" ", "\t", "\n", "\r"}

RECURSIVE TrimStart(_)
TrimStart(s) ==
    IF s = <<>> THEN <<>>
    ELSE IF IsWs(Head(s)) THEN TrimStart(Tail(s)) ELSE s

RECURSIVE TrimEnd(_)
TrimEnd(s) ==
    IF s = <<>> THEN <<>>
    ELSE IF IsWs(s[Len(s)]) THEN TrimEnd(SubSeq(s, 1, Len(s) - 1)) ELSE s

Trim(s) == TrimEnd(TrimStart(s))

Contains(s, c) == \E i \in 1..Len(s) : s[i] = c

\* Length of the leading run of non-whitespace atoms of s.
RECURSIVE WordLen(_)
WordLen(s) ==
    IF s = <<>> \/ IsWs(Head(s)) THEN 0 ELSE 1 + WordLen(Tail(s))

\* str::split_whitespace, collected.
RECURSIVE SplitWhitespace(_)
SplitWhitespace(s) ==
    LET t == TrimStart(s) IN
    IF t = <<>> THEN <<>>
    ELSE LET n == WordLen(t) IN
         <<SubSeq(t, 1, n)>> \o SplitWhitespace(SubSeq(t, n + 1, Len(t)))

\* [&str]::join(" ")
RECURSIVE JoinSpace(_)
JoinSpace(ts) ==
    IF ts = <<>> THEN <<>>
    ELSE IF Len(ts) = 1 THEN ts[1]
    ELSE ts[1] \o <<" ">> \o JoinSpace(Tail(ts))

\* to_ascii_lowercase on one atom: the spellings of the keywords fold to the
\* lower-case keyword and the name "A" to "a"; every other atom of the model
\* holds no upper-case letter.
LowerAtom(c) ==
    CASE c \in {"Host", "HOST", "host"} -> "host"
      [] c \in {"A", "a"} -> "a"
      [] c \in {"HostName", "Hostname", "hostname"} -> "hostname"
      [] c \in {"User", "user"} -> "user"
      [] c \in {"Port", "port"} -> "port"
      [] c \in {"IdentityFile", "identityfile"} -> "identityfile"
      [] c \in {"ProxyCommand", "proxycommand"} -> "proxycommand"
      [] OTHER -> c

ToAsciiLowercase(s) == [i \in 1..Len(s) |-> LowerAtom(s[i])]

EqIgnoreAsciiCase(s, t) == ToAsciiLowercase(s) = ToAsciiLowercase(t)

\* str::lines: split at "\n", a final empty piece is not a line, and one
\* trailing "\r" of a line is dropped.
RECURSIVE LineLen(_)
LineLen(s) == IF s = <<>> \/ Head(s) = "\n" THEN 0 ELSE 1 + LineLen(Tail(s))

StripCr(l) ==
    IF l # <<>> /\ l[Len(l)] = "\r" THEN SubSeq(l, 1, Len(l) - 1) ELSE l

RECURSIVE Lines(_)
Lines(text) ==
    IF text = <<>> THEN <<>>
    ELSE LET n == LineLen(text) IN
         <<StripCr(SubSeq(text, 1, n))>> \o Lines(SubSeq(text, n + 2, Len(text)))

-----------------------------------------------------------------------------
(* HostEntry *)

DefaultEntry ==
    [host |-> <<>>, hostname |-> <<>>, user |-> <<>>, port |-> <<>>,
     identity_file |-> <<>>, proxy_command |-> <<>>, extra |-> <<>>]

HasWildcard(s) == Contains(s, "*") \/ Contains(s, "?")


Digits == <<"0", "1", "2", "3", "4", "5", "6", "7", "8", "9">>

IsDigit(c) == \E d \in 1..10 : Digits[d] = c

DigitVal(c) == (CHOOSE d \in 1..10 : Digits[d] = c) - 1

U16Max == 65535

\* Some(n) is <<n>>, None is <<>>.
\* checked accumulation of the digits s[i..] onto acc, as u16::from_str does.
RECURSIVE ParseDigits(_, _)
ParseDigits(s, acc) ==
    IF s = <<>> THEN <<acc>>
    ELSE IF ~IsDigit(Head(s)) THEN <<>>
    ELSE LET n == acc * 10 + DigitVal(Head(s)) IN
         IF n > U16Max THEN <<>> ELSE ParseDigits(Tail(s), n)

\* Mutant of ParseU16: the number is parsed into a wider type.
RECURSIVE ParseDigitsWide(_, _)
ParseDigitsWide(s, acc) ==
    IF s = <<>> THEN <<acc>>
    ELSE IF ~IsDigit(Head(s)) THEN <<>>
    ELSE ParseDigitsWide(Tail(s), acc * 10 + DigitVal(Head(s)))

ParseU32(s) ==
    IF s = <<>> THEN <<>>
    ELSE IF Len(s) = 1 /\ Head(s) \in {"+", "-"} THEN <<>>
    ELSE IF Head(s) = "+" THEN ParseDigitsWide(Tail(s), 0)
    ELSE ParseDigitsWide(s, 0)

\* str::parse::<u16>: empty input, a lone sign, a '-' and any non-digit are
\* errors, a leading '+' is accepted, overflow is an error.
ParseU16(s) ==
    IF s = <<>> THEN <<>>
    ELSE IF Len(s) = 1 /\ Head(s) \in {"+", "-"} THEN <<>>
    ELSE IF Head(s) = "+" THEN ParseDigits(Tail(s), 0)
    ELSE ParseDigits(s, 0)

\* HostEntry::validate: "ok" or the message of the error.
Validate(e) ==
    IF Trim(e.host) = <<>> THEN "Host cannot be empty"
    ELSE IF Contains(e.host, "*") \/ Contains(e.host, "?")
         THEN "Host cannot contain wildcard characters"
    ELSE IF Trim(e.hostname) = <<>> THEN "HostName cannot be empty"
    ELSE IF Trim(e.port) # <<>>
         THEN LET port_num == ParseU16(Trim(e.port)) IN
              IF port_num = <<>> THEN "Port must be a number between 1 and 65535"
              ELSE IF port_num[1] = 0 THEN "Port must be greater than 0"
              ELSE "ok"
    ELSE "ok"

-----------------------------------------------------------------------------
(* Parser *)

RECURSIVE PrefixBefore(_, _)
PrefixBefore(s, c) ==
    IF s = <<>> \/ Head(s) = c THEN <<>>
    ELSE <<Head(s)>> \o PrefixBefore(Tail(s), c)

StripInlineComment(line) == PrefixBefore(line, "#")

\* entry.extra.push(l) on the open record, nothing when none is open.
PushExtra(st, l) ==
    IF st.current = <<>> THEN st
    ELSE [st EXCEPT !.current[1].extra = Append(@, l)]

\* Mutant of CloseCurrent: a record whose host is already among the entries
\* takes the place of the earlier one (last write wins).
CloseCurrentLastWins(st) ==
    IF st.current # <<>> /\ st.current[1].host # <<>>
    THEN IF \E i \in 1..Len(st.entries) : st.entries[i].host = st.current[1].host
         THEN [i \in 1..Len(st.entries) |->
                  IF st.entries[i].host = st.current[1].host
                  THEN st.current[1] ELSE st.entries[i]]
         ELSE Append(st.entries, st.current[1])
    ELSE st.entries

\* `entries.push(entry)` for the record taken out of `current`.
CloseCurrent(st) ==
    IF st.current # <<>> /\ st.current[1].host # <<>>
    THEN Append(st.entries, st.current[1])
    ELSE st.entries

\* Mutant of SetField: a field that holds a value keeps it (the first
\* occurrence wins).
SetFieldFirstWins(e, kw, value, raw_line) ==
    CASE kw = <<"hostname">> ->
             IF e.hostname # <<>> THEN e ELSE [e EXCEPT !.hostname = value]
      [] kw = <<"user">> -> IF e.user # <<>> THEN e ELSE [e EXCEPT !.user = value]
      [] kw = <<"port">> -> IF e.port # <<>> THEN e ELSE [e EXCEPT !.port = value]
      [] kw = <<"identityfile">> ->
             IF e.identity_file # <<>> THEN e ELSE [e EXCEPT !.identity_file = value]
      [] kw = <<"proxycommand">> ->
             IF e.proxy_command # <<>> THEN e ELSE [e EXCEPT !.proxy_command = value]
      [] OTHER -> [e EXCEPT !.extra = Append(@, TrimEnd(raw_line))]

\* The arm of the match on the lower-cased keyword.
SetField(e, kw, value, raw_line) ==
    CASE kw = <<"hostname">> -> [e EXCEPT !.hostname = value]
      [] kw = <<"user">> -> [e EXCEPT !.user = value]
      [] kw = <<"port">> -> [e EXCEPT !.port = value]
      [] kw = <<"identityfile">> -> [e EXCEPT !.identity_file = value]
      [] kw = <<"proxycommand">> -> [e EXCEPT !.proxy_command = value]
      [] OTHER -> [e EXCEPT !.extra = Append(@, TrimEnd(raw_line))]

\* Mutant of HostLine: a Host line without argument is passed over, the open
\* record stays open.
HostLineKeepsOpen(st, parts) ==
    IF Len(parts) >= 2
    THEN IF HasWildcard(parts[2])
         THEN [entries |-> CloseCurrent(st), current |-> <<>>]
         ELSE [entries |-> CloseCurrent(st),
               current |-> <<[DefaultEntry EXCEPT !.host = parts[2]]>>]
    ELSE st

\* Mutant of HostLine: the wildcard test is missing.
HostLineKeepsWildcard(st, parts) ==
    LET closed == CloseCurrent(st) IN
    IF Len(parts) >= 2
    THEN [entries |-> closed,
          current |-> <<[DefaultEntry EXCEPT !.host = parts[2]]>>]
    ELSE [entries |-> closed, current |-> <<>>]

\* The branch of the loop for a line whose keyword is `host`.
HostLine(st, parts) ==
    LET closed == CloseCurrent(st) IN
    IF Len(parts) >= 2
    THEN IF HasWildcard(parts[2])
         THEN [entries |-> closed, current |-> <<>>]
         ELSE [entries |-> closed,
               current |-> <<[DefaultEntry EXCEPT !.host = parts[2]]>>]
    ELSE [entries |-> closed, current |-> <<>>]

\* One iteration of the loop over contents.lines().
ParseLine(st, raw_line) ==
    LET trimmed_start == TrimStart(raw_line) IN
    IF trimmed_start # <<>> /\ Head(trimmed_start) = "#"
    THEN PushExtra(st, TrimEnd(raw_line))
    ELSE
    LET line == Trim(StripInlineComment(raw_line)) IN
    IF line = <<>> THEN PushExtra(st, <<>>)
    ELSE
    LET parts == SplitWhitespace(line)
        keyword == parts[1]
    IN
    IF EqIgnoreAsciiCase(keyword, <<"host">>)
    THEN HostLine(st, parts)
    ELSE IF st.current # <<>>
    THEN [st EXCEPT !.current[1] =
             SetField(@, ToAsciiLowercase(keyword), JoinSpace(Tail(parts)), raw_line)]
    ELSE st

RECURSIVE ParseLoop(_, _)
ParseLoop(st, lines) ==
    IF lines = <<>> THEN st
    ELSE ParseLoop(ParseLine(st, Head(lines)), Tail(lines))

\* load_host_entries_from_path on a file with the given existence and text.
LoadHostEntries(ex, text) ==
    IF ~ex THEN <<>>
    ELSE CloseCurrent(ParseLoop([entries |-> <<>>, current |-> <<>>], Lines(text)))

-----------------------------------------------------------------------------
(* Block editor *)

IsEmptyLine(l) == l = <<>>

\* Mutant of RenderHostEntryLines: the blank line is pushed whatever the last
\* line is.
RenderAlwaysBlank(entry) ==
    LET kv(key, v) == IF Trim(v) # <<>>
                      THEN << <<" ", " ", key, " ">> \o Trim(v) >>
                      ELSE <<>>
    IN << <<"Host", " ">> \o Trim(entry.host) >>
       \o kv("HostName", entry.hostname)
       \o kv("User", entry.user)
       \o kv("Port", entry.port)
       \o kv("IdentityFile", entry.identity_file)
       \o kv("ProxyCommand", entry.proxy_command)
       \o entry.extra
       \o << <<>> >>

\* Mutant of RenderHostEntryLines: the ProxyCommand line is not written.
RenderWithoutProxyCommand(entry) ==
    LET kv(key, v) == IF Trim(v) # <<>>
                      THEN << <<" ", " ", key, " ">> \o Trim(v) >>
                      ELSE <<>>
        lines == << <<"Host", " ">> \o Trim(entry.host) >>
                 \o kv("HostName", entry.hostname)
                 \o kv("User", entry.user)
                 \o kv("Port", entry.port)
                 \o kv("IdentityFile", entry.identity_file)
                 \o entry.extra
    IN IF ~IsEmptyLine(lines[Len(lines)]) THEN Append(lines, <<>>) ELSE lines

\* Mutant of RenderHostEntryLines: only the recognised fields are written.
RenderWithoutExtra(entry) ==
    LET kv(key, v) == IF Trim(v) # <<>>
                      THEN << <<" ", " ", key, " ">> \o Trim(v) >>
                      ELSE <<>>
    IN << <<"Host", " ">> \o Trim(entry.host) >>
       \o kv("HostName", entry.hostname)
       \o kv("User", entry.user)
       \o kv("Port", entry.port)
       \o kv("IdentityFile", entry.identity_file)
       \o kv("ProxyCommand", entry.proxy_command)
       \o << <<>> >>

\* render_host_entry_lines
RenderHostEntryLines(entry) ==
    LET kv(key, v) == IF Trim(v) # <<>>
                      THEN << <<" ", " ", key, " ">> \o Trim(v) >>
                      ELSE <<>>
        lines == << <<"Host", " ">> \o Trim(entry.host) >>
                 \o kv("HostName", entry.hostname)
                 \o kv("User", entry.user)
                 \o kv("Port", entry.port)
                 \o kv("IdentityFile", entry.identity_file)
                 \o kv("ProxyCommand", entry.proxy_command)
                 \o entry.extra
    IN IF ~IsEmptyLine(lines[Len(lines)]) THEN Append(lines, <<>>) ELSE lines

\* host_name_from_line: Some(name) is <<name>>, None is <<>>.
HostNameFromLine(line) ==
    LET stripped == StripInlineComment(line)
        trimmed == TrimStart(stripped)
    IN IF trimmed = <<>> \/ Head(trimmed) = "#" THEN <<>>
       ELSE LET parts == SplitWhitespace(trimmed) IN
            IF EqIgnoreAsciiCase(parts[1], <<"host">>)
            THEN IF Len(parts) >= 2 THEN <<parts[2]>> ELSE <<>>
            ELSE <<>>

\* The inner while loop of find_host_block: the first index >= index that
\* holds a host header, or len + 1.
RECURSIVE ScanToHeader(_, _)
ScanToHeader(lines, index) ==
    IF index > Len(lines) THEN index
    ELSE IF HostNameFromLine(lines[index]) # <<>> THEN index
    ELSE ScanToHeader(lines, index + 1)

\* Mutant of FindFrom: the name is compared without regard to case.
RECURSIVE FindFromIgnoreCase(_, _, _)
FindFromIgnoreCase(lines, host, index) ==
    IF index > Len(lines) THEN <<>>
    ELSE LET name == HostNameFromLine(lines[index]) IN
         IF name # <<>>
         THEN LET end == ScanToHeader(lines, index + 1) IN
              IF EqIgnoreAsciiCase(name[1], host) THEN <<index, end>>
              ELSE FindFromIgnoreCase(lines, host, end)
         ELSE FindFromIgnoreCase(lines, host, index + 1)

\* The outer loop of find_host_block from `index` (1-based); the result is
\* <<>> for None and <<start, end>> for Some((start, end)), the block being
\* lines[start .. end - 1].
RECURSIVE FindFrom(_, _, _)
FindFrom(lines, host, index) ==
    IF index > Len(lines) THEN <<>>
    ELSE LET name == HostNameFromLine(lines[index]) IN
         IF name # <<>>
         THEN LET end == ScanToHeader(lines, index + 1) IN
              IF name[1] = host THEN <<index, end>>
              ELSE FindFrom(lines, host, end)
         ELSE FindFrom(lines, host, index + 1)

FindHostBlock(lines, host) == FindFrom(lines, host, 1)

\* append_block
AppendBlock(lines, entry) ==
    (IF lines # <<>> /\ ~IsEmptyLine(lines[Len(lines)])
     THEN Append(lines, <<>>) ELSE lines)
    \o RenderHostEntryLines(entry)

\* Mutant of ReplaceBlock: the lines above the first host header are not
\* written back.
ReplaceBlockFromFirstHeader(lines, start, end, entry) ==
    SubSeq(lines, ScanToHeader(lines, 1), start - 1) \o RenderHostEntryLines(entry)
    \o SubSeq(lines, end, Len(lines))

\* Mutant of ReplaceBlock: the block is taken out and the rendered entry put
\* at the end of the file.
ReplaceBlockAtEnd(lines, start, end, entry) ==
    SubSeq(lines, 1, start - 1) \o SubSeq(lines, end, Len(lines))
    \o RenderHostEntryLines(entry)

\* Mutant of ReplaceBlock: the range spliced out is start..=end.
ReplaceBlockInclusive(lines, start, end, entry) ==
    SubSeq(lines, 1, start - 1) \o RenderHostEntryLines(entry)
    \o SubSeq(lines, end + 1, Len(lines))

\* replace_block: lines.splice(start..end, rendered)
ReplaceBlock(lines, start, end, entry) ==
    SubSeq(lines, 1, start - 1) \o RenderHostEntryLines(entry)
    \o SubSeq(lines, end, Len(lines))

RECURSIVE RemoveEmptyAt(_, _)
RemoveEmptyAt(lines, start) ==
    IF start <= Len(lines) /\ IsEmptyLine(lines[start])
    THEN RemoveEmptyAt(SubSeq(lines, 1, start - 1)
                       \o SubSeq(lines, start + 1, Len(lines)), start)
    ELSE lines

RECURSIVE PopEmpty(_)
PopEmpty(lines) ==
    IF lines # <<>> /\ IsEmptyLine(lines[Len(lines)])
    THEN PopEmpty(SubSeq(lines, 1, Len(lines) - 1))
    ELSE lines

\* Mutant of RemoveBlock: the lines are drained and nothing is trimmed.
RemoveBlockDrainOnly(lines, start, end) ==
    SubSeq(lines, 1, start - 1) \o SubSeq(lines, end, Len(lines))

\* Mutant of RemoveBlock: blank lines are trimmed from the end of the file
\* after every removal.
RemoveBlockTrimAlways(lines, start, end) ==
    PopEmpty(SubSeq(lines, 1, start - 1) \o SubSeq(lines, end, Len(lines)))

\* Mutant of RemoveBlock: at the end of the file one blank line is popped, not
\* every one (an `if` in place of the `while`).
RemoveBlockPopOne(lines, start, end) ==
    LET drained == SubSeq(lines, 1, start - 1) \o SubSeq(lines, end, Len(lines)) IN
    IF start <= Len(drained) THEN RemoveEmptyAt(drained, start)
    ELSE IF drained # <<>> /\ IsEmptyLine(drained[Len(drained)])
         THEN SubSeq(drained, 1, Len(drained) - 1)
         ELSE drained

\* remove_block
RemoveBlock(lines, start, end) ==
    LET drained == SubSeq(lines, 1, start - 1) \o SubSeq(lines, end, Len(lines)) IN
    IF start <= Len(drained) THEN RemoveEmptyAt(drained, start)
    ELSE PopEmpty(drained)

\* read_config_lines
ReadConfigLines(ex, text) == IF ~ex THEN <<>> ELSE Lines(text)

\* The buffer write_config_lines builds: every line followed by "\n".
RECURSIVE WriteBuffer(_)
WriteBuffer(lines) ==
    IF lines = <<>> THEN <<>>
    ELSE Head(lines) \o <<"\n">> \o WriteBuffer(Tail(lines))


\* The outcome of a handler: its Result, the file it leaves behind, and
\* whether it reached write_config_lines.
Failed(ex, text, msg) == [res |-> msg, exists |-> ex, file |-> text, wrote |-> FALSE]

\* write_config_lines: create_dir_all on the parent directory, then fs::write,
\* which creates the file when it is missing.
WriteConfigLines(lines) ==
    [res |-> "ok", exists |-> TRUE, file |-> WriteBuffer(lines), wrote |-> TRUE]

\* Mutant of AddHostEntryAtPath: a block of the same name is replaced.
AddOrReplace(ex, text, entry) ==
    IF Validate(entry) # "ok" THEN Failed(ex, text, Validate(entry))
    ELSE LET lines == ReadConfigLines(ex, text)
             found == FindHostBlock(lines, entry.host)
         IN IF found # <<>>
            THEN WriteConfigLines(ReplaceBlock(lines, found[1], found[2], entry))
            ELSE WriteConfigLines(AppendBlock(lines, entry))

\* add_host_entry_at_path
AddHostEntryAtPath(ex, text, entry) ==
    IF Validate(entry) # "ok" THEN Failed(ex, text, Validate(entry))
    ELSE LET lines == ReadConfigLines(ex, text) IN
         IF FindHostBlock(lines, entry.host) # <<>>
         THEN Failed(ex, text, "already exists")
         ELSE WriteConfigLines(AppendBlock(lines, entry))

\* Mutant of UpdateHostEntryAtPath: the block is looked up under entry.host.
UpdateByEntryHost(ex, text, original_host, entry) ==
    IF Validate(entry) # "ok" THEN Failed(ex, text, Validate(entry))
    ELSE LET lines == ReadConfigLines(ex, text)
             found == FindHostBlock(lines, entry.host)
         IN IF found # <<>>
            THEN WriteConfigLines(ReplaceBlock(lines, found[1], found[2], entry))
            ELSE WriteConfigLines(AppendBlock(lines, entry))

\* update_host_entry_at_path
UpdateHostEntryAtPath(ex, text, original_host, entry) ==
    IF Validate(entry) # "ok" THEN Failed(ex, text, Validate(entry))
    ELSE LET lines == ReadConfigLines(ex, text)
             found == FindHostBlock(lines, original_host)
         IN IF found # <<>>
            THEN WriteConfigLines(ReplaceBlock(lines, found[1], found[2], entry))
            ELSE WriteConfigLines(AppendBlock(lines, entry))

\* Mutant of UpsertHostEntryAtPath: the entry is validated after the edit is
\* written.
UpsertThenValidate(ex, text, entry) ==
    LET lines == ReadConfigLines(ex, text)
        found == FindHostBlock(lines, entry.host)
        wrote == IF found # <<>>
                 THEN WriteConfigLines(ReplaceBlock(lines, found[1], found[2], entry))
                 ELSE WriteConfigLines(AppendBlock(lines, entry))
    IN IF Validate(entry) # "ok" THEN [wrote EXCEPT !.res = Validate(entry)]
       ELSE wrote

\* upsert_host_entry_at_path
UpsertHostEntryAtPath(ex, text, entry) ==
    IF Validate(entry) # "ok" THEN Failed(ex, text, Validate(entry))
    ELSE LET lines == ReadConfigLines(ex, text)
             found == FindHostBlock(lines, entry.host)
         IN IF found # <<>>
            THEN WriteConfigLines(ReplaceBlock(lines, found[1], found[2], entry))
            ELSE WriteConfigLines(AppendBlock(lines, entry))

\* Mutant of DeleteHostEntryAtPath: the lines read are written back before
\* the missing host is reported.
DeleteWritesThenFails(ex, text, host) ==
    LET lines == ReadConfigLines(ex, text)
        found == FindHostBlock(lines, host)
    IN IF found # <<>>
       THEN WriteConfigLines(RemoveBlock(lines, found[1], found[2]))
       ELSE [WriteConfigLines(lines) EXCEPT !.res = "not found"]

\* Mutant of DeleteHostEntryAtPath: a missing host is not an error, the lines
\* read are written back.
DeleteLenient(ex, text, host) ==
    LET lines == ReadConfigLines(ex, text)
        found == FindHostBlock(lines, host)
    IN IF found # <<>>
       THEN WriteConfigLines(RemoveBlock(lines, found[1], found[2]))
       ELSE WriteConfigLines(lines)

\* delete_host_entry_at_path
DeleteHostEntryAtPath(ex, text, host) ==
    LET lines == ReadConfigLines(ex, text)
        found == FindHostBlock(lines, host)
    IN IF found # <<>>
       THEN WriteConfigLines(RemoveBlock(lines, found[1], found[2]))
       ELSE Failed(ex, text, "not found")

-----------------------------------------------------------------------------
(* Inputs of the editor specification *)

\* Number of operations a behaviour of the editor runs.
MaxOps == 2

Entry(host, hostname, port, extra) ==
    [DefaultEntry EXCEPT !.host = host, !.hostname = hostname,
                         !.port = port, !.extra = extra]

\* Entries handed to add, upsert and update: valid ones (plain, with a port
\* and extra lines, with a name that carries whitespace) and one for each
\* way validation fails.
EditEntries ==
    { Entry(<<"a">>, <<"h">>, <<>>, <<>>),
      Entry(<<"b">>, <<"h">>, <<"2", "2">>, << <<" ", " ", "ForwardAgent", " ", "yes">> >>),
      Entry(<<"x">>, <<"h">>, <<>>, <<>>),
      Entry(<<" ", "a">>, <<"h">>, <<>>, <<>>),
      Entry(<<"*">>, <<"h">>, <<>>, <<>>),
      Entry(<<"a">>, <<" ">>, <<>>, <<>>),
      Entry(<<"x">>, <<"h">>, <<"7", "0", "0", "0", "0">>, <<>>) }

\* Entries handed to update: a valid one that renames and an invalid one.
UpdateEntries ==
    { Entry(<<"c">>, <<"h">>, <<>>, << <<"#", "c">>, <<>> >>),
      Entry(<<"c">>, <<>>, <<>>, <<>>) }

\* Names handed to delete and to update as the original host.
TargetNames == { <<"a">>, <<"b">>, <<"*">>, <<"missing">> }

\* Values the recognised field of a parsed record is changed to.
NewHostNames == { <<"new">> }

\* Files the editor starts from, as lines.
InitLines ==
    { <<>>,
      \* two named blocks separated by a blank line
      << <<"Host", " ", "a">>, <<" ", " ", "HostName", " ", "1">>, <<>>,
         <<"Host", " ", "b">>, <<" ", " ", "HostName", " ", "2">> >>,
      \* a wildcard block between named blocks
      << <<"Host", " ", "a">>, <<" ", " ", "HostName", " ", "1">>, <<>>,
         <<"Host", " ", "*">>, <<" ", " ", "ServerAliveInterval", " ", "6", "0">>, <<>>,
         <<"Host", " ", "b">>, <<" ", " ", "HostName", " ", "2">> >>,
      \* a preamble, comments, an unknown keyword, an inline comment
      << <<"Compression", " ", "yes">>,
         <<"host", " ", "a">>, <<" ", " ", "#", " ", "note">>,
         <<"hostname", " ", "1", " ", "#", "c">>,
         <<" ", " ", "LocalForward", " ", "8">> >>,
      \* blocks that end with blank lines
      << <<"Host", " ", "b">>, <<" ", " ", "HostName", " ", "2">>, <<>>,
         <<"Host", " ", "a">>, <<" ", " ", "User", " ", "u">>, <<>>, <<>> >>,
      \* two blocks of the same name, a Host line without argument
      << <<"Host", " ", "a">>, <<" ", " ", "HostName", " ", "1">>,
         <<"Host">>, <<" ", " ", "User", " ", "u">>,
         <<"Host", " ", "a">>, <<" ", " ", "HostName", " ", "2">> >> }

\* The text of a file: its lines, the last one with or without its "\n".
TextsOf(lines) ==
    { WriteBuffer(lines) } \cup
    (IF lines = <<>> THEN {}
     ELSE { SubSeq(WriteBuffer(lines), 1, Len(WriteBuffer(lines)) - 1) })

NoOp(kind) == [kind |-> kind, host |-> <<>>, entry |-> DefaultEntry,
               rec |-> 0, res |-> "ok"]

Init ==
    /\ \E lines \in InitLines : file \in TextsOf(lines)
    /\ exists \in (IF file = <<>> THEN BOOLEAN ELSE {TRUE})
    /\ dirExists \in (IF exists THEN {TRUE} ELSE BOOLEAN)
    /\ prevFile = file
    /\ prevExists = exists
    /\ prevDirExists = dirExists
    /\ lastOp = NoOp("init")
    /\ ops = 0
    /\ entries = <<>>
    /\ out = <<>>
    /\ span = <<>>
    /\ baseFile = <<>>
    /\ app = <<>>

\* The handler ran to `r`.
Ran(kind, host, entry, rec, r) ==
    /\ ops < MaxOps
    /\ ops' = ops + 1
    /\ prevFile' = file
    /\ prevExists' = exists
    /\ prevDirExists' = dirExists
    /\ file' = r.file
    /\ exists' = r.exists
    /\ dirExists' = (dirExists \/ r.wrote)
    /\ lastOp' = [kind |-> kind, host |-> host, entry |-> entry,
                  rec |-> rec, res |-> r.res]
    /\ UNCHANGED <<entries, out, span, baseFile, app>>

Add ==
    \E entry \in EditEntries :
        Ran("add", <<>>, entry, 0, AddHostEntryAtPath(exists, file, entry))

Upsert ==
    \E entry \in EditEntries :
        Ran("upsert", <<>>, entry, 0, UpsertHostEntryAtPath(exists, file, entry))

Update ==
    \E original_host \in TargetNames, entry \in UpdateEntries :
        Ran("update", original_host, entry, 0,
            UpdateHostEntryAtPath(exists, file, original_host, entry))

\* Load the records, change a recognised field of one of them, and update
\* its block under its own name.
UpdateRecord ==
    LET loaded == LoadHostEntries(exists, file) IN
    \E i \in 1..Len(loaded), hn \in NewHostNames :
        LET entry == [loaded[i] EXCEPT !.hostname = hn] IN
        Ran("update", loaded[i].host, entry, i,
            UpdateHostEntryAtPath(exists, file, loaded[i].host, entry))

Delete ==
    \E host \in TargetNames :
        Ran("delete", host, DefaultEntry, 0, DeleteHostEntryAtPath(exists, file, host))

\* load_host_entries_from_path, on the file as it was first found.
Load ==
    /\ lastOp.kind = "init"
    /\ entries' = LoadHostEntries(exists, file)
    /\ lastOp' = NoOp("load")
    /\ UNCHANGED <<file, exists, dirExists, prevFile, prevExists, prevDirExists,
                   ops, out, span, baseFile, app>>

Next == Load \/ Add \/ Upsert \/ Update \/ UpdateRecord \/ Delete

Spec == Init /\ [][Next]_vars

-----------------------------------------------------------------------------
(* The parser on every short text *)

\* Number of lines of the texts the parser is run on.
MaxTextLines == 3

ParseLines ==
    { <<"Host", " ", "a">>,
      <<"Host", " ", "b">>,
      <<"Host", " ", "*">>,
      <<"host", " ", "a", "?", " ", "b">>,
      <<"Host">>,
      <<"Host", " ", "#", "a">>,
      <<" ", " ", "HostName", " ", "1">>,
      <<"hostname", " ", " ", "2", " ", "#", "c">>,
      <<" ", " ", "User", " ", "u">>,
      <<" ", " ", "ProxyCommand", " ", "ssh", " ", "j">>,
      <<" ", " ", "LocalForward", " ", "8", " ">>,
      <<" ", "#", " ", "note">>,
      <<>> }

BoundedSeqs(S, n) == UNION { [1..k -> S] : k \in 0..n }

\* The lines of every rendered record, in order.
RECURSIVE RenderAll(_)
RenderAll(es) ==
    IF es = <<>> THEN <<>>
    ELSE RenderHostEntryLines(Head(es)) \o RenderAll(Tail(es))

ParseInit ==
    /\ \E lines \in BoundedSeqs(ParseLines, MaxTextLines) : file = WriteBuffer(lines)
    /\ exists = TRUE
    /\ dirExists = TRUE
    /\ prevFile = file
    /\ prevExists = exists
    /\ prevDirExists = dirExists
    /\ lastOp = NoOp("init")
    /\ ops = 0
    /\ entries = <<>>
    /\ out = <<>>
    /\ span = <<>>
    /\ baseFile = <<>>
    /\ app = <<>>

Render ==
    /\ lastOp.kind = "load"
    /\ out' = RenderAll(entries)
    /\ lastOp' = NoOp("render")
    /\ UNCHANGED <<file, exists, dirExists, prevFile, prevExists, prevDirExists,
                   ops, entries, span, baseFile, app>>

ParseNext == Load \/ Render

ParseSpec == ParseInit /\ [][ParseNext]_vars

-----------------------------------------------------------------------------
(* validate on a range of entries *)

HostValues ==
    { <<>>, <<" ">>, <<"a">>, <<" ", "a", " ">>, <<"a", " ", "b">>,
      <<"*">>, <<"a", "*", "b">>, <<"a", "?">> }

HostNameValues == { <<>>, <<" ", "\t">>, <<"h">> }

PortValues ==
    { <<>>, <<" ">>, <<"0">>, <<"0", "0">>, <<"1">>, <<"2", "2">>,
      <<" ", "2", "2", " ">>, <<"0", "2", "2">>, <<"+", "2", "2">>,
      <<"-", "1">>, <<"+">>, <<"2", " ", "2">>, <<"abc">>, <<"2", "2", "x">>,
      <<"6", "5", "5", "3", "5">>, <<"6", "5", "5", "3", "6">>,
      <<"7", "0", "0", "0", "0">>, <<"0", "6", "5", "5", "3", "5">>,
      <<"1", "0", "0", "0", "0", "0">> }

ValidateInit ==
    /\ \E h \in HostValues, hn \in HostNameValues, p \in PortValues :
          lastOp = [NoOp("init") EXCEPT !.entry = Entry(h, hn, p, <<>>)]
    /\ file = <<>>
    /\ exists = FALSE
    /\ dirExists = FALSE
    /\ prevFile = file
    /\ prevExists = exists
    /\ prevDirExists = dirExists
    /\ ops = 0
    /\ entries = <<>>
    /\ out = <<>>
    /\ span = <<>>
    /\ baseFile = <<>>
    /\ app = <<>>

ValidateStep ==
    /\ lastOp.kind = "init"
    /\ lastOp' = [lastOp EXCEPT !.kind = "validate", !.res = Validate(lastOp.entry)]
    /\ UNCHANGED <<file, exists, dirExists, prevFile, prevExists, prevDirExists,
                   ops, entries, out, span, baseFile, app>>

ValidateNext == ValidateStep

ValidateSpec == ValidateInit /\ [][ValidateNext]_vars

-----------------------------------------------------------------------------
(* find_host_block on every short text *)

FindLines ==
    { <<"Host", " ", "a">>,
      <<"Host", " ", "A">>,
      <<" ", "HOST", " ", "a">>,
      <<"Host", " ", "a", " ", "b">>,
      <<"Host", " ", "*">>,
      <<"Host">>,
      <<"#", " ", "Host", " ", "a">>,
      <<" ", " ", "HostName", " ", "1">>,
      <<>> }

\* Names looked up.
FindNames == { <<"a">>, <<"A">>, <<"b">>, <<"*">> }

FindInit ==
    /\ \E lines \in BoundedSeqs(FindLines, MaxTextLines) : file = WriteBuffer(lines)
    /\ exists = TRUE
    /\ dirExists = TRUE
    /\ prevFile = file
    /\ prevExists = exists
    /\ prevDirExists = dirExists
    /\ lastOp = NoOp("init")
    /\ ops = 0
    /\ entries = <<>>
    /\ out = <<>>
    /\ span = <<>>
    /\ baseFile = <<>>
    /\ app = <<>>

\* find_host_block on the lines read from the file.
Find ==
    /\ lastOp.kind = "init"
    /\ \E host \in FindNames :
          /\ span' = FindHostBlock(ReadConfigLines(exists, file), host)
          /\ lastOp' = [NoOp("find") EXCEPT !.host = host]
    /\ UNCHANGED <<file, exists, dirExists, prevFile, prevExists, prevDirExists,
                   ops, entries, out, baseFile, app>>

FindNext == Find

FindSpec == FindInit /\ [][FindNext]_vars

-----------------------------------------------------------------------------
(* render_host_entry_lines on a range of entries *)

RenderHosts == { <<"a">>, <<" ", "a", "\t">> }

\* Values of a recognised field: empty, blank, and a value with whitespace
\* around it.
RenderValues == { <<>>, <<" ">>, <<" ", "v", " ">> }

\* Values of extra: none, a keyword line, lines that end with one blank
\* line, and lines that end with two.
RenderExtras ==
    { <<>>,
      << <<" ", " ", "ForwardAgent", " ", "yes">> >>,
      << <<"#", " ", "note">>, <<>> >>,
      << <<" ", " ", "ForwardAgent", " ", "yes">>, <<>>, <<>> >> }

RenderInit ==
    /\ \E h \in RenderHosts, hn \in RenderValues, u \in RenderValues,
          p \in RenderValues, idf \in RenderValues, pc \in RenderValues,
          x \in RenderExtras :
          lastOp = [NoOp("init") EXCEPT
                       !.entry = [host |-> h, hostname |-> hn, user |-> u,
                                  port |-> p, identity_file |-> idf,
                                  proxy_command |-> pc, extra |-> x]]
    /\ file = <<>>
    /\ exists = FALSE
    /\ dirExists = FALSE
    /\ prevFile = file
    /\ prevExists = exists
    /\ prevDirExists = dirExists
    /\ ops = 0
    /\ entries = <<>>
    /\ out = <<>>
    /\ span = <<>>
    /\ baseFile = <<>>
    /\ app = <<>>

RenderStep ==
    /\ lastOp.kind = "init"
    /\ out' = RenderHostEntryLines(lastOp.entry)
    /\ lastOp' = [lastOp EXCEPT !.kind = "render_entry"]
    /\ UNCHANGED <<file, exists, dirExists, prevFile, prevExists, prevDirExists,
                   ops, entries, span, baseFile, app>>

RenderNext == RenderStep

RenderSpec == RenderInit /\ [][RenderNext]_vars

-----------------------------------------------------------------------------
(* Cycles of add and delete *)

\* Number of cycles a behaviour runs.
MaxCycles == 2

\* Files a cycle starts from, as lines: empty, a block that ends with no,
\* one and two blank lines, a file without any block, two blocks.
CycleLines ==
    { <<>>,
      << <<"Host", " ", "a">>, <<" ", " ", "HostName", " ", "1">> >>,
      << <<"Host", " ", "a">>, <<" ", " ", "HostName", " ", "1">>, <<>> >>,
      << <<"Host", " ", "a">>, <<" ", " ", "User", " ", "u">>, <<>>, <<>> >>,
      << <<"Compression", " ", "yes">> >>,
      << <<"Host", " ", "a">>, <<" ", " ", "HostName", " ", "1">>, <<>>,
         <<"Host", " ", "b">>, <<" ", " ", "HostName", " ", "2">>, <<>> >> }

\* Entries added: new names, with and without extra lines, a name some of
\* the files hold, and a name that carries whitespace.
CycleEntries ==
    { Entry(<<"x">>, <<"h">>, <<>>, <<>>),
      Entry(<<"y">>, <<"h">>, <<"2", "2">>, << <<" ", " ", "ForwardAgent", " ", "yes">> >>),
      Entry(<<"b">>, <<"h">>, <<>>, <<>>),
      Entry(<<" ", "x">>, <<"h">>, <<>>, <<>>) }

\* Names handed to delete.
CycleTargets == { <<"a">>, <<"x">>, <<"y">>, <<"b">>, <<" ", "x">> }

CycleInit ==
    /\ \E lines \in CycleLines : file \in TextsOf(lines)
    /\ exists = TRUE
    /\ dirExists = TRUE
    /\ prevFile = file
    /\ prevExists = exists
    /\ prevDirExists = dirExists
    /\ lastOp = NoOp("init")
    /\ ops = 0
    /\ entries = <<>>
    /\ out = <<>>
    /\ span = <<>>
    /\ baseFile = file
    /\ app = <<>>

\* The handler ran to `r` as a step of a cycle that began with the text
\* `base`.
CycleRan(kind, host, entry, base, r) ==
    /\ ops < 2 * MaxCycles
    /\ ops' = ops + 1
    /\ prevFile' = file
    /\ prevExists' = exists
    /\ prevDirExists' = dirExists
    /\ file' = r.file
    /\ exists' = r.exists
    /\ dirExists' = (dirExists \/ r.wrote)
    /\ baseFile' = base
    /\ lastOp' = [kind |-> kind, host |-> host, entry |-> entry,
                  rec |-> 0, res |-> r.res]
    /\ UNCHANGED <<entries, out, span, app>>

\* add_host_entry_at_path; a cycle begins.
CycleAdd ==
    /\ lastOp.kind \in {"init", "delete"}
    /\ \E entry \in CycleEntries :
          CycleRan("add", <<>>, entry, file, AddHostEntryAtPath(exists, file, entry))

\* delete_host_entry_at_path; lastOp keeps the entry of the add before it.
CycleDelete ==
    /\ lastOp.kind \in {"init", "add"}
    /\ \E host \in CycleTargets :
          CycleRan("delete", host,
                   IF lastOp.kind = "add" /\ lastOp.res = "ok"
                   THEN lastOp.entry ELSE DefaultEntry,
                   baseFile, DeleteHostEntryAtPath(exists, file, host))

CycleNext == CycleAdd \/ CycleDelete

CycleSpec == CycleInit /\ [][CycleNext]_vars

-----------------------------------------------------------------------------
(* The editor of src/src/config.rs.  Its HostEntry has no proxy_command (the
   field of the record stays empty here); validate, find_host_block,
   append_block, replace_block, read_config_lines and write_config_lines read
   as in ssh_config.rs, the parser and the renderer do not. *)

\* The arm of the match on the lower-cased keyword, config.rs.
ConfigSetField(e, kw, value, raw_line) ==
    CASE kw = <<"hostname">> -> [e EXCEPT !.hostname = value]
      [] kw = <<"user">> -> [e EXCEPT !.user = value]
      [] kw = <<"port">> -> [e EXCEPT !.port = value]
      [] kw = <<"identityfile">> -> [e EXCEPT !.identity_file = value]
      [] OTHER -> IF Trim(raw_line) # <<>>
                  THEN [e EXCEPT !.extra = Append(@, Trim(raw_line))]
                  ELSE e

\* One iteration of the loop over contents.lines(), config.rs.
ConfigParseLine(st, raw_line) ==
    LET line == Trim(StripInlineComment(raw_line)) IN
    IF line = <<>> THEN PushExtra(st, TrimEnd(raw_line))
    ELSE
    LET parts == SplitWhitespace(line)
        keyword == parts[1]
    IN
    IF EqIgnoreAsciiCase(keyword, <<"host">>)
    THEN HostLine(st, parts)
    ELSE IF st.current # <<>>
    THEN [st EXCEPT !.current[1] =
             ConfigSetField(@, ToAsciiLowercase(keyword), JoinSpace(Tail(parts)),
                            raw_line)]
    ELSE st

RECURSIVE ConfigParseLoop(_, _)
ConfigParseLoop(st, lines) ==
    IF lines = <<>> THEN st
    ELSE ConfigParseLoop(ConfigParseLine(st, Head(lines)), Tail(lines))

\* load_host_entries_from_path of config.rs.
ConfigLoadHostEntries(ex, text) ==
    IF ~ex THEN <<>>
    ELSE CloseCurrent(ConfigParseLoop([entries |-> <<>>, current |-> <<>>],
                                      Lines(text)))

\* render_host_entry_lines of config.rs: the blank line is always pushed.
ConfigRenderHostEntryLines(entry) ==
    LET kv(key, v) == IF Trim(v) # <<>>
                      THEN << <<" ", " ", key, " ">> \o Trim(v) >>
                      ELSE <<>>
    IN << <<"Host", " ">> \o Trim(entry.host) >>
       \o kv("HostName", entry.hostname)
       \o kv("User", entry.user)
       \o kv("Port", entry.port)
       \o kv("IdentityFile", entry.identity_file)
       \o entry.extra
       \o << <<>> >>

\* append_block of config.rs.
ConfigAppendBlock(lines, entry) ==
    (IF lines # <<>> /\ ~IsEmptyLine(lines[Len(lines)])
     THEN Append(lines, <<>>) ELSE lines)
    \o ConfigRenderHostEntryLines(entry)

\* replace_block of config.rs: lines.splice(start..end, rendered).
ConfigReplaceBlock(lines, start, end, entry) ==
    SubSeq(lines, 1, start - 1) \o ConfigRenderHostEntryLines(entry)
    \o SubSeq(lines, end, Len(lines))

\* update_host_entry_at_path of config.rs.
ConfigUpdateHostEntryAtPath(ex, text, original_host, entry) ==
    IF Validate(entry) # "ok" THEN Failed(ex, text, Validate(entry))
    ELSE LET lines == ReadConfigLines(ex, text)
             found == FindHostBlock(lines, original_host)
         IN IF found # <<>>
            THEN WriteConfigLines(ConfigReplaceBlock(lines, found[1], found[2], entry))
            ELSE WriteConfigLines(ConfigAppendBlock(lines, entry))

-----------------------------------------------------------------------------
(* Cycles of parse and update: a record is loaded and its block is updated
   under the record's own name, unchanged, again and again. *)

\* Number of cycles a behaviour runs.
MaxEdits == 3

EditInit ==
    /\ \E lines \in InitLines \cup CycleLines : file \in TextsOf(lines)
    /\ exists = TRUE
    /\ dirExists = TRUE
    /\ prevFile = file
    /\ prevExists = exists
    /\ prevDirExists = dirExists
    /\ lastOp = NoOp("init")
    /\ ops = 0
    /\ entries = <<>>
    /\ out = <<>>
    /\ span = <<>>
    /\ baseFile = file
    /\ app = <<>>

\* The update ran to `r` on the record `rec` of `loaded`.
EditRan(kind, loaded, rec, r) ==
    /\ ops < MaxEdits
    /\ ops' = ops + 1
    /\ prevFile' = file
    /\ prevExists' = exists
    /\ prevDirExists' = dirExists
    /\ file' = r.file
    /\ exists' = r.exists
    /\ dirExists' = (dirExists \/ r.wrote)
    /\ entries' = loaded
    /\ lastOp' = [kind |-> kind, host |-> loaded[rec].host, entry |-> loaded[rec],
                  rec |-> rec, res |-> r.res]
    /\ UNCHANGED <<out, span, baseFile, app>>

\* ssh_config.rs: load_host_entries_from_path, then update_host_entry_at_path
\* of a record under its own name; a later cycle takes the record at the same
\* place.
EditCycle ==
    /\ lastOp.kind \in {"init", "edit"}
    /\ LET loaded == LoadHostEntries(exists, file) IN
       \E i \in 1..Len(loaded) :
          /\ lastOp.kind = "edit" => i = lastOp.rec
          /\ EditRan("edit", loaded, i,
                     UpdateHostEntryAtPath(exists, file, loaded[i].host, loaded[i]))

\* config.rs: the same cycle through its own parser and editor.
ConfigEditCycle ==
    /\ lastOp.kind \in {"init", "config_edit"}
    /\ LET loaded == ConfigLoadHostEntries(exists, file) IN
       \E i \in 1..Len(loaded) :
          /\ lastOp.kind = "config_edit" => i = lastOp.rec
          /\ EditRan("config_edit", loaded, i,
                     ConfigUpdateHostEntryAtPath(exists, file, loaded[i].host,
                                                 loaded[i]))

EditNext == EditCycle \/ ConfigEditCycle

EditSpec == EditInit /\ [][EditNext]_vars

-----------------------------------------------------------------------------
(* The UI controller (src/src/app.rs) *)

\* FormField::next and FormField::previous
FormFieldNext(f) ==
    CASE f = "Host" -> "HostName"
      [] f = "HostName" -> "User"
      [] f = "User" -> "Port"
      [] f = "Port" -> "IdentityFile"
      [] f = "IdentityFile" -> "Host"

FormFieldPrevious(f) ==
    CASE f = "Host" -> "IdentityFile"
      [] f = "HostName" -> "Host"
      [] f = "User" -> "HostName"
      [] f = "Port" -> "User"
      [] f = "IdentityFile" -> "Port"

\* App::new with the records load_host_entries returned; `selected` counts
\* from 0, an Option is <<>> or <<x>>.
NewApp(hosts) ==
    [hosts |-> hosts, selected |-> 0, status |-> <<>>, state |-> "Normal",
     form_entry |-> DefaultEntry, form_field |-> "Host", form_error |-> <<>>,
     original_host_name |-> <<>>]

\* Mutant of SelectNext: the index is not wrapped.
SelectNextNoWrap(a) ==
    IF a.hosts = <<>> THEN a
    ELSE [a EXCEPT !.selected = a.selected + 1]

\* App::next
SelectNext(a) ==
    IF a.hosts = <<>> THEN a
    ELSE [a EXCEPT !.selected = (a.selected + 1) % Len(a.hosts)]

\* App::previous
SelectPrevious(a) ==
    IF a.hosts = <<>> THEN a
    ELSE IF a.selected = 0 THEN [a EXCEPT !.selected = Len(a.hosts) - 1]
    ELSE [a EXCEPT !.selected = a.selected - 1]

\* App::selected_host: self.hosts.get(self.selected)
SelectedHost(a) ==
    IF a.selected < Len(a.hosts) THEN <<a.hosts[a.selected + 1]>> ELSE <<>>

IsFormActive(a) == a.state # "Normal"

\* App::enter_edit_mode
EnterEditMode(a) ==
    IF SelectedHost(a) # <<>>
    THEN [a EXCEPT !.form_entry = SelectedHost(a)[1],
                   !.original_host_name = <<SelectedHost(a)[1].host>>,
                   !.form_field = "Host",
                   !.form_error = <<>>,
                   !.state = "Edit"]
    ELSE a

\* App::enter_new_mode
EnterNewMode(a) ==
    [a EXCEPT !.form_entry = DefaultEntry,
              !.original_host_name = <<>>,
              !.form_field = "Host",
              !.form_error = <<>>,
              !.state = "New"]

\* Mutant of CancelForm: the state goes back to Normal and the form is left
\* as it was.
CancelFormKeepsForm(a) ==
    [a EXCEPT !.state = "Normal"]

\* App::cancel_form
CancelForm(a) ==
    [a EXCEPT !.state = "Normal",
              !.form_entry = DefaultEntry,
              !.form_error = <<>>,
              !.original_host_name = <<>>]

\* App::focus_next_field and App::focus_previous_field
FocusNextField(a) ==
    IF IsFormActive(a) THEN [a EXCEPT !.form_field = FormFieldNext(@)] ELSE a

FocusPreviousField(a) ==
    IF IsFormActive(a) THEN [a EXCEPT !.form_field = FormFieldPrevious(@)] ELSE a

\* char::is_control on the characters typed.
IsControl(ch) == ch \in {"\n", "\r", "\t"}

\* current_field_mut followed by push or pop.
PushToCurrentField(a, ch) ==
    CASE a.form_field = "Host" -> [a EXCEPT !.form_entry.host = Append(@, ch)]
      [] a.form_field = "HostName" -> [a EXCEPT !.form_entry.hostname = Append(@, ch)]
      [] a.form_field = "User" -> [a EXCEPT !.form_entry.user = Append(@, ch)]
      [] a.form_field = "Port" -> [a EXCEPT !.form_entry.port = Append(@, ch)]
      [] a.form_field = "IdentityFile" ->
             [a EXCEPT !.form_entry.identity_file = Append(@, ch)]

Pop(s) == IF s = <<>> THEN <<>> ELSE SubSeq(s, 1, Len(s) - 1)

PopCurrentField(a) ==
    CASE a.form_field = "Host" -> [a EXCEPT !.form_entry.host = Pop(@)]
      [] a.form_field = "HostName" -> [a EXCEPT !.form_entry.hostname = Pop(@)]
      [] a.form_field = "User" -> [a EXCEPT !.form_entry.user = Pop(@)]
      [] a.form_field = "Port" -> [a EXCEPT !.form_entry.port = Pop(@)]
      [] a.form_field = "IdentityFile" -> [a EXCEPT !.form_entry.identity_file = Pop(@)]

\* App::handle_form_input
HandleFormInput(a, ch) ==
    IF ~IsFormActive(a) \/ IsControl(ch) THEN a
    ELSE PushToCurrentField([a EXCEPT !.form_error = <<>>], ch)

\* App::handle_form_backspace
HandleFormBackspace(a) ==
    IF ~IsFormActive(a) THEN a
    ELSE PopCurrentField([a EXCEPT !.form_error = <<>>])

\* self.hosts.iter().position(|entry| entry.host == host), from index i.
RECURSIVE PositionFrom(_, _, _)
PositionFrom(hosts, host, i) ==
    IF i > Len(hosts) THEN <<>>
    ELSE IF hosts[i].host = host THEN <<i - 1>>
    ELSE PositionFrom(hosts, host, i + 1)

\* App::refresh_hosts, load_host_entries having returned `loaded`.
RefreshHosts(a, loaded, focus) ==
    LET b == [a EXCEPT !.hosts = loaded] IN
    IF loaded = <<>> THEN [b EXCEPT !.selected = 0]
    ELSE IF focus # <<>> /\ PositionFrom(loaded, focus[1], 1) # <<>>
    THEN [b EXCEPT !.selected = PositionFrom(loaded, focus[1], 1)[1]]
    ELSE IF b.selected >= Len(loaded) THEN [b EXCEPT !.selected = Len(loaded) - 1]
    ELSE b

\* Mutant of SaveForm: the file operation runs before the entry is validated.
SaveFormWritesFirst(a, ex, text, io) ==
    IF ~IsFormActive(a) THEN [app |-> a, file |-> Failed(ex, text, "inactive")]
    ELSE
    LET entry == a.form_entry
        original == IF a.original_host_name # <<>> THEN a.original_host_name[1]
                    ELSE entry.host
        lines == ReadConfigLines(ex, text)
        found == FindHostBlock(lines, IF a.state = "Edit" THEN original ELSE entry.host)
        wrote == IF found # <<>>
                 THEN WriteConfigLines(ReplaceBlock(lines, found[1], found[2], entry))
                 ELSE WriteConfigLines(AppendBlock(lines, entry))
    IN IF Validate(entry) # "ok"
       THEN [app |-> [a EXCEPT !.form_error = <<Validate(entry)>>],
             file |-> [wrote EXCEPT !.res = Validate(entry)]]
       ELSE [app |-> [RefreshHosts(a, LoadHostEntries(wrote.exists, wrote.file),
                                   <<entry.host>>)
                        EXCEPT !.state = "Normal", !.form_entry = DefaultEntry,
                               !.form_error = <<>>, !.original_host_name = <<>>,
                               !.status = <<"saved">>],
             file |-> wrote]

\* Mutant of SaveForm: New mode saves with add.
SaveFormAdds(a, ex, text, io) ==
    IF ~IsFormActive(a) THEN [app |-> a, file |-> Failed(ex, text, "inactive")]
    ELSE
    LET entry == a.form_entry IN
    IF Validate(entry) # "ok"
    THEN [app |-> [a EXCEPT !.form_error = <<Validate(entry)>>],
          file |-> Failed(ex, text, Validate(entry))]
    ELSE
    LET original == IF a.original_host_name # <<>> THEN a.original_host_name[1]
                    ELSE entry.host
        result == IF io = "write_fails" THEN Failed(ex, text, "io error")
                  ELSE IF a.state = "Edit"
                  THEN UpdateHostEntryAtPath(ex, text, original, entry)
                  ELSE AddHostEntryAtPath(ex, text, entry)
    IN IF result.res # "ok"
       THEN [app |-> [a EXCEPT !.form_error = <<result.res>>], file |-> result]
       ELSE IF io = "reload_fails"
       THEN [app |-> [a EXCEPT !.form_error = <<"io error">>],
             file |-> [result EXCEPT !.res = "reload failed"]]
       ELSE [app |-> [RefreshHosts(a, LoadHostEntries(result.exists, result.file),
                                   <<entry.host>>)
                        EXCEPT !.state = "Normal", !.form_entry = DefaultEntry,
                               !.form_error = <<>>, !.original_host_name = <<>>,
                               !.status = <<IF a.state = "Edit" THEN "updated"
                                            ELSE "created">>],
             file |-> result]

\* App::save_form on the file with the given existence and text; `io` says
\* whether the file operation and the reload succeed.  The result is the new
\* App and the outcome of the file operation.
SaveForm(a, ex, text, io) ==
    IF ~IsFormActive(a) THEN [app |-> a, file |-> Failed(ex, text, "inactive")]
    ELSE
    LET entry == a.form_entry IN
    IF Validate(entry) # "ok"
    THEN [app |-> [a EXCEPT !.form_error = <<Validate(entry)>>],
          file |-> Failed(ex, text, Validate(entry))]
    ELSE
    LET original == IF a.original_host_name # <<>> THEN a.original_host_name[1]
                    ELSE entry.host
        result == IF io = "write_fails" THEN Failed(ex, text, "io error")
                  ELSE IF a.state = "Edit"
                  THEN UpdateHostEntryAtPath(ex, text, original, entry)
                  ELSE UpsertHostEntryAtPath(ex, text, entry)
    IN IF result.res # "ok"
       THEN [app |-> [a EXCEPT !.form_error = <<result.res>>], file |-> result]
       ELSE IF io = "reload_fails"
       THEN [app |-> [a EXCEPT !.form_error = <<"io error">>],
             file |-> [result EXCEPT !.res = "reload failed"]]
       ELSE [app |-> [RefreshHosts(a, LoadHostEntries(result.exists, result.file),
                                   <<entry.host>>)
                        EXCEPT !.state = "Normal", !.form_entry = DefaultEntry,
                               !.form_error = <<>>, !.original_host_name = <<>>,
                               !.status = <<IF a.state = "Edit" THEN "updated"
                                            ELSE "created">>],
             file |-> result]

\* Number of calls a behaviour of the controller makes.
MaxUiOps == 5

\* Files the controller starts on, as lines: none, two blocks, and a block
\* with a comment and an unknown keyword before a second block.
AppLines ==
    { <<>>,
      << <<"Host", " ", "a">>, <<" ", " ", "HostName", " ", "1">>, <<>>,
         <<"Host", " ", "b">>, <<" ", " ", "HostName", " ", "2">> >>,
      << <<"Host", " ", "a">>, <<" ", " ", "HostName", " ", "1">>,
         <<" ", " ", "#", " ", "note">>, <<" ", " ", "LocalForward", " ", "8">>, <<>>,
         <<"Host", " ", "c">>, <<" ", " ", "HostName", " ", "3">>,
         <<"Host", " ", "b">>, <<" ", " ", "HostName", " ", "2">> >> }

\* Characters typed into the form: a letter, a wildcard, a control character.
TypedChars == { "a", "*", "\n" }

\* Outcomes of the I/O of a save.
IoOutcomes == { "ok", "write_fails", "reload_fails" }

AppInit ==
    /\ \E lines \in AppLines : file = WriteBuffer(lines)
    /\ exists \in (IF file = <<>> THEN BOOLEAN ELSE {TRUE})
    /\ dirExists = TRUE
    /\ prevFile = file
    /\ prevExists = exists
    /\ prevDirExists = dirExists
    /\ lastOp = NoOp("init")
    /\ ops = 0
    /\ entries = <<>>
    /\ out = <<>>
    /\ span = <<>>
    /\ baseFile = <<>>
    /\ app = NewApp(LoadHostEntries(exists, file))

\* A method of App that touches no file was called and left the App `a`.
Called(kind, a) ==
    /\ ops < MaxUiOps
    /\ ops' = ops + 1
    /\ app' = a
    /\ lastOp' = NoOp(kind)
    /\ prevFile' = file
    /\ prevExists' = exists
    /\ prevDirExists' = dirExists
    /\ UNCHANGED <<file, exists, dirExists, entries, out, span, baseFile>>

UiNext == Called("next", SelectNext(app))

UiPrevious == Called("previous", SelectPrevious(app))

UiEnterEditMode == Called("enter_edit_mode", EnterEditMode(app))

UiEnterNewMode == Called("enter_new_mode", EnterNewMode(app))

UiCancelForm == Called("cancel_form", CancelForm(app))

UiFocusNextField == Called("focus_next_field", FocusNextField(app))

UiFocusPreviousField == Called("focus_previous_field", FocusPreviousField(app))

UiHandleFormInput ==
    \E ch \in TypedChars : Called("handle_form_input", HandleFormInput(app, ch))

UiHandleFormBackspace == Called("handle_form_backspace", HandleFormBackspace(app))

\* App::save_form; lastOp keeps the form entry, the name the block is looked
\* up under and the outcome of the file operation.
UiSaveForm ==
    \E io \in IoOutcomes :
        LET r == SaveForm(app, exists, file, io) IN
        /\ ops < MaxUiOps
        /\ ops' = ops + 1
        /\ app' = r.app
        /\ file' = r.file.file
        /\ exists' = r.file.exists
        /\ dirExists' = (dirExists \/ r.file.wrote)
        /\ prevFile' = file
        /\ prevExists' = exists
        /\ prevDirExists' = dirExists
        /\ lastOp' = [kind |-> "save_form",
                      host |-> IF app.state = "Edit" /\ app.original_host_name # <<>>
                               THEN app.original_host_name[1]
                               ELSE app.form_entry.host,
                      entry |-> app.form_entry, rec |-> 0, res |-> r.file.res]
        /\ UNCHANGED <<entries, out, span, baseFile>>

AppNext ==
    \/ UiNext \/ UiPrevious \/ UiEnterEditMode \/ UiEnterNewMode \/ UiCancelForm
    \/ UiFocusNextField \/ UiFocusPreviousField
    \/ UiHandleFormInput \/ UiHandleFormBackspace \/ UiSaveForm

AppSpec == AppInit /\ [][AppNext]_vars

-----------------------------------------------------------------------------
(* Properties *)

\* The words of the specification, stated without the code's operators.

\* A line is a host header when, its inline comment removed, its first token
\* is `host` in any case and a second token, the name, follows.
Tokens(line) == SplitWhitespace(StripInlineComment(line))

IsHostHeader(line) ==
    /\ Len(Tokens(line)) >= 2
    /\ Tokens(line)[1] \in {<<"Host">>, <<"host">>, <<"HOST">>}

HeaderName(line) == Tokens(line)[2]

NonBlank(lines) == SelectSeq(lines, LAMBDA l : l # <<>>)

\* The value of a string of decimal digits, without bound.
RECURSIVE DecimalValue(_)
DecimalValue(s) ==
    IF s = <<>> THEN 0
    ELSE DecimalValue(SubSeq(s, 1, Len(s) - 1)) * 10 + DigitVal(s[Len(s)])

\* s writes an integer in lo..hi: decimal digits, optionally signed with '+'.
IsIntegerIn(s, lo, hi) ==
    LET d == IF s # <<>> /\ Head(s) = "+" THEN Tail(s) ELSE s IN
    /\ d # <<>>
    /\ \A i \in 1..Len(d) : IsDigit(d[i])
    /\ DecimalValue(d) >= lo
    /\ DecimalValue(d) <= hi

\* C5: validate accepts an entry exactly when host is non-empty after
\* trimming and holds neither '*' nor '?', hostname is non-empty after
\* trimming, and port is empty after trimming or an integer in 1..65535;
\* port 0, 65536, 70000 and a non-numeric port are rejected.
C5_ValidateAccepts ==
    lastOp.kind = "validate" =>
        LET e == lastOp.entry IN
        /\ (lastOp.res = "ok") <=>
              /\ Trim(e.host) # <<>>
              /\ \A i \in 1..Len(e.host) : e.host[i] \notin {"*", "?"}
              /\ Trim(e.hostname) # <<>>
              /\ \/ Trim(e.port) = <<>>
                 \/ IsIntegerIn(Trim(e.port), 1, 65535)
        /\ e.port \in { <<"0">>, <<"6", "5", "5", "3", "6">>,
                        <<"7", "0", "0", "0", "0">>, <<"abc">> }
              => lastOp.res # "ok"

C5_Witness ==
    /\ lastOp.kind = "validate"
    /\ lastOp.entry.host = <<"a">>
    /\ lastOp.entry.hostname = <<"h">>
    /\ lastOp.entry.port = <<"7", "0", "0", "0", "0">>
    /\ lastOp.res # "ok"

\* C7: every record the parser returns has a non-empty host that holds
\* neither '*' nor '?'; a `Host *` block followed by directives yields no
\* record named '*'.
C7_RecordHostNamed ==
    lastOp.kind \in {"load", "render"} =>
        \A i \in 1..Len(entries) :
            /\ entries[i].host # <<>>
            /\ \A k \in 1..Len(entries[i].host) :
                   entries[i].host[k] \notin {"*", "?"}

C7_Witness ==
    /\ lastOp.kind = "load"
    /\ Len(Lines(file)) = 3
    /\ Lines(file)[1] = <<"Host", " ", "*">>
    /\ Lines(file)[2] = <<" ", " ", "User", " ", "u">>
    /\ Lines(file)[3] = <<"Host", " ", "a">>
    /\ Len(entries) = 1

\* The canonical form of a file of named blocks of recognised keywords.
CanonKeywords == <<"HostName", "User", "Port", "IdentityFile", "ProxyCommand">>

KeywordRank(k) == CHOOSE r \in 1..Len(CanonKeywords) : CanonKeywords[r] = k

IsNameAtom(c) == ~IsWs(c) /\ c \notin {"#", "*", "?"}

IsCanonHeader(l) ==
    /\ Len(l) >= 3
    /\ l[1] = "Host"
    /\ l[2] = " "
    /\ \A i \in 3..Len(l) : IsNameAtom(l[i])

IsCanonKeywordLine(l) ==
    /\ Len(l) >= 5
    /\ l[1] = " " /\ l[2] = " " /\ l[4] = " "
    /\ \E r \in 1..Len(CanonKeywords) : CanonKeywords[r] = l[3]
    /\ LET v == SubSeq(l, 5, Len(l)) IN
       /\ ~Contains(v, "#")
       /\ JoinSpace(SplitWhitespace(v)) = v

\* The number of the block line i lies in: the headers at or before it.
BlockNo(lines, i) == Cardinality({j \in 1..i : IsHostHeader(lines[j])})

SameBlockKeywords(F, i, j) ==
    /\ BlockNo(F, i) = BlockNo(F, j)
    /\ IsCanonKeywordLine(F[i])
    /\ IsCanonKeywordLine(F[j])

\* Named blocks only, every body line a recognised keyword written
\* canonically, no keyword twice in a block; blank lines may separate lines.
InRoundTripClass(F) ==
    /\ F = <<>> \/ IsCanonHeader(F[1])
    /\ \A i \in 1..Len(F) : IsCanonHeader(F[i]) \/ IsCanonKeywordLine(F[i])
    /\ \A i, j \in 1..Len(F) :
          i < j /\ SameBlockKeywords(F, i, j) => F[i][3] # F[j][3]

InKeywordOrder(F) ==
    \A i, j \in 1..Len(F) :
        i < j /\ SameBlockKeywords(F, i, j)
            => KeywordRank(F[i][3]) < KeywordRank(F[j][3])

-----------------------------------------------------------------------------
(* Properties of the editor *)

\* The lines of the file before and after the last operation.
PrevLines == IF prevExists THEN Lines(prevFile) ELSE <<>>

NewLines == IF exists THEN Lines(file) ELSE <<>>

\* A block is a host header and the lines after it up to the next host
\* header or the end of the file; it is named by the index of its header.
Headers(L) == {i \in 1..Len(L) : IsHostHeader(L[i])}

BlockEnd(L, s) ==
    CHOOSE e \in (s + 1)..(Len(L) + 1) :
        /\ e = Len(L) + 1 \/ IsHostHeader(L[e])
        /\ \A k \in (s + 1)..(e - 1) : ~IsHostHeader(L[k])

NamedHeaders(L, name) == {i \in Headers(L) : HeaderName(L[i]) = name}

HasBlock(L, name) == NamedHeaders(L, name) # {}

FirstNamed(L, name) ==
    CHOOSE i \in NamedHeaders(L, name) : \A j \in NamedHeaders(L, name) : i <= j

\* The name the last operation looked up.
TargetName == IF lastOp.kind = "upsert" THEN lastOp.entry.host ELSE lastOp.host

\* The last operation succeeded on a block of the file.
EditedBlock ==
    /\ lastOp.kind \in {"upsert", "update", "delete"}
    /\ lastOp.res = "ok"
    /\ HasBlock(PrevLines, TargetName)

\* Line i of the old file stands, unchanged, `shift` lines further on.
KeptAt(i, shift) ==
    /\ i + shift \in 1..Len(NewLines)
    /\ NewLines[i + shift] = PrevLines[i]

\* The lines of a block after the edited one move by the change in length.
ShiftOf(a, b) == IF a < b THEN 0 ELSE Len(NewLines) - Len(PrevLines)

\* C1 as claimed: a successful upsert, update or delete that targets block B
\* leaves every line of every other block A unchanged and in order.
C1_IsolationEveryOperation ==
    EditedBlock =>
        LET b == FirstNamed(PrevLines, TargetName) IN
        \A a \in Headers(PrevLines) \ {b} :
            \A i \in a..(BlockEnd(PrevLines, a) - 1) : KeptAt(i, ShiftOf(a, b))

\* Line i is one of the blank lines that end the text before block b.
InBlankRunBefore(i, b) == \A k \in i..(b - 1) : PrevLines[k] = <<>>

\* C1, amended: a successful upsert or update that targets block B leaves
\* every line of every other block A unchanged and in order; so does a
\* successful delete, except that when B is the last block of the file the
\* blank lines that end the block before B are removed with B.
C1_Isolation ==
    EditedBlock =>
        LET b == FirstNamed(PrevLines, TargetName)
            trims == /\ lastOp.kind = "delete"
                     /\ BlockEnd(PrevLines, b) = Len(PrevLines) + 1
        IN \A a \in Headers(PrevLines) \ {b} :
              \A i \in a..(BlockEnd(PrevLines, a) - 1) :
                  IF trims /\ i < b /\ InBlankRunBefore(i, b)
                  THEN Len(NewLines) < i
                  ELSE KeptAt(i, ShiftOf(a, b))

C1_Witness ==
    /\ EditedBlock
    /\ lastOp.kind = "delete"
    /\ Cardinality(Headers(PrevLines)) >= 2
    /\ LET b == FirstNamed(PrevLines, TargetName) IN
       /\ BlockEnd(PrevLines, b) = Len(PrevLines) + 1
       /\ b > 1
       /\ PrevLines[b - 1] = <<>>
       /\ Len(NewLines) = b - 2

RECURSIVE IsSubseq(_, _)
IsSubseq(a, b) ==
    IF a = <<>> THEN TRUE
    ELSE IF b = <<>> THEN FALSE
    ELSE IF Head(a) = Head(b) THEN IsSubseq(Tail(a), Tail(b))
    ELSE IsSubseq(a, Tail(b))

\* C2: when a record is obtained by parsing and only its recognised fields
\* are changed, update on its block writes a block that holds every line of
\* the record's extra, unchanged and in the original order.
C2_UpdateKeepsExtra ==
    (lastOp.kind = "update" /\ lastOp.rec > 0 /\ lastOp.res = "ok") =>
        LET record == LoadHostEntries(prevExists, prevFile)[lastOp.rec]
            name == record.host
        IN /\ HasBlock(NewLines, name)
           /\ LET s == FirstNamed(NewLines, name) IN
              IsSubseq(record.extra, SubSeq(NewLines, s, BlockEnd(NewLines, s) - 1))

C2_Witness ==
    /\ lastOp.kind = "update"
    /\ lastOp.rec > 0
    /\ lastOp.res = "ok"
    /\ LoadHostEntries(prevExists, prevFile)[lastOp.rec].extra =
           << <<" ", " ", "#", " ", "note">>,
              <<" ", " ", "LocalForward", " ", "8">> >>
    /\ lastOp.entry.hostname = <<"new">>

\* C3 as claimed: upsert of the same valid entry a second time leaves the
\* file as the first upsert left it.
C3_UpsertIdempotent ==
    [][ ( /\ lastOp.kind = "upsert" /\ lastOp.res = "ok"
          /\ lastOp'.kind = "upsert" /\ lastOp'.res = "ok"
          /\ lastOp'.entry = lastOp.entry )
        => file' = file ]_vars

\* C4: add, upsert and update validate the entry before anything else: when
\* validation fails the operation returns that error, writes nothing, and the
\* file's content and existence are as before the call.
C4_InvalidEntryNoWrite ==
    (lastOp.kind \in {"add", "upsert", "update"} /\ Validate(lastOp.entry) # "ok") =>
        /\ lastOp.res = Validate(lastOp.entry)
        /\ file = prevFile
        /\ exists = prevExists

C4_Witness ==
    /\ lastOp.kind = "upsert"
    /\ lastOp.entry.port = <<"7", "0", "0", "0", "0">>
    /\ lastOp.res # "ok"
    /\ HasBlock(PrevLines, <<"a">>)
    /\ file = prevFile

\* C6: delete with a name that matches no host header fails with a not-found
\* error and leaves the file unchanged, nothing being written.
C6_DeleteMissingFails ==
    (lastOp.kind = "delete" /\ ~HasBlock(PrevLines, lastOp.host)) =>
        /\ lastOp.res = "not found"
        /\ file = prevFile
        /\ exists = prevExists

C6_Witness ==
    /\ lastOp.kind = "delete"
    /\ lastOp.host = <<"missing">>
    /\ Headers(PrevLines) # {}
    /\ lastOp.res = "not found"

\* C8 as claimed: for every upsert, update or delete call, the lines of every
\* block whose Host argument holds '*' or '?' are the same, in the same order,
\* before and after the call.
C8_WildcardBlocksUntouched ==
    lastOp.kind \in {"upsert", "update", "delete"} =>
        \A a \in Headers(PrevLines) :
            HasWildcard(HeaderName(PrevLines[a])) =>
                \E shift \in (0 - Len(PrevLines))..Len(NewLines) :
                    \A i \in a..(BlockEnd(PrevLines, a) - 1) : KeptAt(i, shift)

\* C10: upsert with a valid entry replaces, at the same position, the first
\* block whose Host name equals entry.host when there is one, and otherwise
\* appends the rendered block at the end of the file, after a blank line when
\* the file ends with a non-blank line; on an empty file upsert of
\* {host x, hostname h} writes exactly 'Host x', '  HostName h', ''.
C10_UpsertReplacesOrAppends ==
    (lastOp.kind = "upsert" /\ Validate(lastOp.entry) = "ok") =>
        LET P == PrevLines
            e == lastOp.entry
            block == RenderHostEntryLines(e)
        IN /\ lastOp.res = "ok"
           /\ exists
           /\ IF HasBlock(P, e.host)
              THEN LET s == FirstNamed(P, e.host) IN
                   NewLines = SubSeq(P, 1, s - 1) \o block
                              \o SubSeq(P, BlockEnd(P, s), Len(P))
              ELSE IF P # <<>> /\ P[Len(P)] # <<>>
              THEN NewLines = P \o << <<>> >> \o block
              ELSE NewLines = P \o block
           /\ (P = <<>> /\ e = Entry(<<"x">>, <<"h">>, <<>>, <<>>)) =>
                 file = <<"Host", " ", "x", "\n",
                          " ", " ", "HostName", " ", "h", "\n", "\n">>

C10_Witness ==
    /\ lastOp.kind = "upsert"
    /\ lastOp.res = "ok"
    /\ HasBlock(PrevLines, lastOp.entry.host)
    /\ LET s == FirstNamed(PrevLines, lastOp.entry.host) IN
       /\ s > 1
       /\ BlockEnd(PrevLines, s) <= Len(PrevLines)
       /\ NewLines # PrevLines

\* The old lines followed by `block`, after one blank line when the old
\* lines end with a non-blank line.
Appended(P, block) ==
    IF P # <<>> /\ P[Len(P)] # <<>> THEN P \o << <<>> >> \o block ELSE P \o block

\* C11: update looks the block up under the original host name, not under
\* entry.host: when a block of the original name exists, the first one is
\* replaced in place by the rendered entry, whose header carries entry.host
\* (a rename when the names differ); when none exists the rendered entry is
\* appended at the end of the file and the call succeeds.
C11_UpdateLocatesByOriginal ==
    (lastOp.kind = "update" /\ Validate(lastOp.entry) = "ok") =>
        LET P == PrevLines
            block == RenderHostEntryLines(lastOp.entry)
        IN /\ lastOp.res = "ok"
           /\ IF HasBlock(P, lastOp.host)
              THEN LET s == FirstNamed(P, lastOp.host) IN
                   /\ NewLines = SubSeq(P, 1, s - 1) \o block
                                 \o SubSeq(P, BlockEnd(P, s), Len(P))
                   /\ IsHostHeader(NewLines[s])
                   /\ HeaderName(NewLines[s]) = Trim(lastOp.entry.host)
              ELSE NewLines = Appended(P, block)

\* A rename: the block of the original name is not the first of the file and
\* the entry carries another name, which then stands in its header.
C11_Witness ==
    /\ lastOp.kind = "update"
    /\ lastOp.res = "ok"
    /\ HasBlock(PrevLines, lastOp.host)
    /\ lastOp.entry.host # lastOp.host
    /\ ~HasBlock(PrevLines, lastOp.entry.host)
    /\ LET s == FirstNamed(PrevLines, lastOp.host) IN
       /\ s > 1
       /\ HeaderName(NewLines[s]) = lastOp.entry.host
       /\ ~HasBlock(NewLines, lastOp.host)

\* C12: find_host_block returns the span of the first host header, from the
\* top, whose name equals the requested name, case counting; the span runs
\* from that header up to but excluding the next host header of any name, or
\* to the end of the file; the keyword `host` is recognised in any case; when
\* no header carries the name the result is none.
C12_FindFirstExact ==
    lastOp.kind = "find" =>
        LET L == Lines(file) IN
        IF HasBlock(L, lastOp.host)
        THEN LET s == FirstNamed(L, lastOp.host) IN
             span = <<s, BlockEnd(L, s)>>
        ELSE span = <<>>

\* The header found is written with the keyword in upper case, follows a
\* header whose name differs from the requested one by case only, and is
\* followed by another header.
C12_Witness ==
    /\ lastOp.kind = "find"
    /\ lastOp.host = <<"a">>
    /\ LET L == Lines(file) IN
       /\ Len(L) = 3
       /\ IsHostHeader(L[1]) /\ HeaderName(L[1]) = <<"A">>
       /\ IsHostHeader(L[2]) /\ Tokens(L[2])[1] = <<"HOST">>
       /\ IsHostHeader(L[3])
       /\ span = <<2, 3>>

\* A Host line of the parser: its first token is `host` in any case.
IsHostLine(line) ==
    /\ Tokens(line) # <<>>
    /\ Tokens(line)[1] \in {<<"Host">>, <<"host">>, <<"HOST">>}

\* A Host line that opens a record: it has a name, free of '*' and '?'.
OpensRecord(line) ==
    /\ IsHostLine(line)
    /\ Len(Tokens(line)) >= 2
    /\ \A i \in 1..Len(Tokens(line)[2]) : Tokens(line)[2][i] \notin {"*", "?"}

\* The hosts of the records, in the order returned.
HostsOf(es) == [i \in 1..Len(es) |-> es[i].host]

\* The indices of the Host lines that open a record, and the i-th of them.
Openers(L) == {k \in 1..Len(L) : OpensRecord(L[k])}

NthOpener(L, i) ==
    CHOOSE k \in Openers(L) : Cardinality({j \in Openers(L) : j <= k}) = i

\* The index after the last line that follows line s and is no Host line.
SectionEnd(L, s) ==
    CHOOSE e \in (s + 1)..(Len(L) + 1) :
        /\ e = Len(L) + 1 \/ IsHostLine(L[e])
        /\ \A k \in (s + 1)..(e - 1) : ~IsHostLine(L[k])

\* C13: the parser returns one record for each Host line that opens one, in
\* the file order of those lines; two Host lines of the same name give two
\* records, neither merged with nor overwritten by the other: each record is
\* the one its own Host line and the lines below it up to the next Host line
\* give when parsed alone.
C13_RecordsInFileOrder ==
    lastOp.kind = "load" =>
        LET L == Lines(file) IN
        /\ Len(entries) = Cardinality(Openers(L))
        /\ \A i \in 1..Len(entries) :
              LET s == NthOpener(L, i) IN
              /\ entries[i].host = HeaderName(L[s])
              /\ <<entries[i]>> =
                    LoadHostEntries(TRUE, WriteBuffer(SubSeq(L, s, SectionEnd(L, s) - 1)))

\* Two Host lines of one name around a Host line of another name.
C13_Witness ==
    /\ lastOp.kind = "load"
    /\ Len(Lines(file)) = 3
    /\ \A i \in 1..3 : OpensRecord(Lines(file)[i])
    /\ HostsOf(entries) = << <<"a">>, <<"b">>, <<"a">> >>

\* Line k is a Host line that opens no record (its argument is missing or
\* holds '*' or '?'), or follows one before the next Host line.
Skipped(L, k) ==
    \E s \in 1..k :
        /\ IsHostLine(L[s])
        /\ ~OpensRecord(L[s])
        /\ k < SectionEnd(L, s)

NthOf(S, i) == CHOOSE k \in S : Cardinality({j \in S : j <= k}) = i

\* The lines of L that are not skipped, in order.
WithoutSkipped(L) ==
    LET K == {k \in 1..Len(L) : ~Skipped(L, k)} IN
    [i \in 1..Cardinality(K) |-> L[NthOf(K, i)]]

\* C14: a Host line whose argument is missing or holds '*' or '?' closes the
\* record open before it, which is returned as it stood, and nothing is
\* accumulated until the next Host line: the records returned are those of
\* the file without these Host lines and the lines that follow them, one for
\* each Host line that opens a record, and a line found only after such a
\* Host line is in no record's extra.
C14_SkippedSectionsContributeNothing ==
    lastOp.kind = "load" =>
        LET L == Lines(file) IN
        /\ entries = LoadHostEntries(TRUE, WriteBuffer(WithoutSkipped(L)))
        /\ Len(entries) = Cardinality(Openers(L))
        /\ \A k \in 1..Len(L) :
              (/\ Skipped(L, k) /\ ~IsHostLine(L[k]) /\ L[k] # <<>>
               /\ \A j \in 1..Len(L) : L[j] = L[k] => Skipped(L, j)) =>
                  \A i \in 1..Len(entries) :
                      \A x \in 1..Len(entries[i].extra) :
                          entries[i].extra[x] # TrimEnd(L[k])

\* A record, then a Host line without argument, then a keyword line: the
\* record is returned without the keyword's value.
C14_Witness ==
    /\ lastOp.kind = "load"
    /\ Len(Lines(file)) = 3
    /\ OpensRecord(Lines(file)[1])
    /\ Tokens(Lines(file)[2]) = << <<"Host">> >>
    /\ Tokens(Lines(file)[3]) = << <<"User">>, <<"u">> >>
    /\ entries = << [DefaultEntry EXCEPT !.host = <<"a">>] >>

\* Line i of the old file stands above its first Host line.
InPreamble(i) == \A k \in 1..i : ~IsHostLine(PrevLines[k])

\* The old lines from the first Host line on.
AfterPreamble ==
    LET K == {k \in 1..Len(PrevLines) : ~InPreamble(k)} IN
    [i \in 1..Cardinality(K) |-> PrevLines[NthOf(K, i)]]

\* The last operation was an upsert or update that rewrote a block.
RewroteBlock ==
    /\ lastOp.kind \in {"upsert", "update"}
    /\ lastOp.res = "ok"
    /\ HasBlock(PrevLines, TargetName)

\* The records of the old file are those of the file without its preamble.
PreambleInNoRecord ==
    LoadHostEntries(prevExists, prevFile) =
        LoadHostEntries(TRUE, WriteBuffer(AfterPreamble))

\* C15 as claimed: a line above the first Host line is in no parsed record
\* and, after an upsert or update has rewritten a block, is absent from the
\* file.
C15_PreambleDropped ==
    RewroteBlock =>
        /\ PreambleInNoRecord
        /\ \A i \in 1..Len(PrevLines) :
              (InPreamble(i) /\ PrevLines[i] # <<>>) =>
                  \A j \in 1..Len(NewLines) : NewLines[j] # PrevLines[i]

\* C15: a line above the first Host line is in no parsed record, and an
\* upsert or update that rewrites a block keeps it: after the rewrite the
\* line stands in the file where it stood.
C15_PreambleKept ==
    RewroteBlock =>
        /\ PreambleInNoRecord
        /\ \A i \in 1..Len(PrevLines) : InPreamble(i) => KeptAt(i, 0)

\* A block was rewritten below a preamble line that holds a keyword.
C15_Witness ==
    /\ RewroteBlock
    /\ NewLines # PrevLines
    /\ InPreamble(1)
    /\ Tokens(PrevLines[1]) # <<>>
    /\ NewLines[1] = PrevLines[1]
    /\ \A i \in 1..Len(LoadHostEntries(prevExists, prevFile)) :
          LoadHostEntries(prevExists, prevFile)[i].extra # <<PrevLines[1]>>

\* No two host headers of L carry the same name.
UniqueHeaders(L) ==
    \A i, j \in Headers(L) : HeaderName(L[i]) = HeaderName(L[j]) => i = j

\* No two records carry the same host.
UniqueRecords(es) ==
    \A i, j \in 1..Len(es) : es[i].host = es[j].host => i = j

\* C16 as claimed: the host name is a unique key; a successful add, upsert,
\* update or delete on a file in which no two host headers have the same name
\* leaves a file in which no two host headers, and no two parsed records,
\* have the same name.
C16_HostNameUniqueKey ==
    [][ (/\ UniqueHeaders(NewLines)
         /\ ops' = ops + 1
         /\ lastOp'.kind \in {"add", "upsert", "update", "delete"}
         /\ lastOp'.res = "ok")
        => /\ UniqueHeaders(IF exists' THEN Lines(file') ELSE <<>>)
           /\ UniqueRecords(LoadHostEntries(exists', file')) ]_vars

\* Two updates that rename two blocks to one name.
C16_RenameCollision ==
    /\ lastOp.kind = "update"
    /\ lastOp.res = "ok"
    /\ UniqueHeaders(PrevLines)
    /\ HasBlock(PrevLines, lastOp.host)
    /\ HasBlock(PrevLines, lastOp.entry.host)
    /\ Cardinality(NamedHeaders(NewLines, lastOp.entry.host)) = 2
    /\ ~UniqueRecords(LoadHostEntries(exists, file))

\* C17: add with a valid entry fails with the 'already exists' error and
\* leaves the file as it was when a host header of the file carries
\* entry.host; otherwise it succeeds and appends the rendered block (after a
\* blank line when the file ends with a non-blank line), every line of the
\* old file standing where it stood.
C17_AddFailsOnDuplicate ==
    (lastOp.kind = "add" /\ Validate(lastOp.entry) = "ok") =>
        IF HasBlock(PrevLines, lastOp.entry.host)
        THEN /\ lastOp.res = "already exists"
             /\ file = prevFile
             /\ exists = prevExists
        ELSE /\ lastOp.res = "ok"
             /\ NewLines = Appended(PrevLines, RenderHostEntryLines(lastOp.entry))
             /\ \A i \in 1..Len(PrevLines) : KeptAt(i, 0)

\* add was refused on a file whose text a write would have changed (it does
\* not end with a line terminator).
C17_Witness ==
    /\ lastOp.kind = "add"
    /\ lastOp.res = "already exists"
    /\ HasBlock(PrevLines, lastOp.entry.host)
    /\ file # <<>>
    /\ file[Len(file)] # "\n"
    /\ file = prevFile

\* add appended a block to a file that held other blocks.
C17_WitnessAppend ==
    /\ lastOp.kind = "add"
    /\ lastOp.res = "ok"
    /\ Headers(PrevLines) # {}
    /\ Len(NewLines) > Len(PrevLines)

\* C18 as claimed: no parse, add, upsert, update or delete brings a missing
\* configuration file, or its missing parent directory, into existence.
C18_NeverCreates ==
    /\ ~prevExists => ~exists
    /\ ~prevDirExists => ~dirExists

\* C18: parse and delete never create the configuration file or its parent
\* directory: on a missing file parse returns no record and delete fails with
\* the not-found error, and add, upsert and update with an invalid entry fail
\* too, all leaving file and directory as they were; add, upsert and update
\* with a valid entry create the directory and the file, which then holds
\* the rendered block.
C18_CreatedOnlyByWrite ==
    ~prevExists =>
        CASE lastOp.kind = "load" ->
                 /\ entries = <<>>
                 /\ ~exists
                 /\ dirExists = prevDirExists
          [] lastOp.kind = "delete" ->
                 /\ lastOp.res = "not found"
                 /\ ~exists
                 /\ dirExists = prevDirExists
          [] lastOp.kind \in {"add", "upsert", "update"} ->
                 IF Validate(lastOp.entry) = "ok"
                 THEN /\ lastOp.res = "ok"
                      /\ exists
                      /\ dirExists
                      /\ file = WriteBuffer(RenderHostEntryLines(lastOp.entry))
                 ELSE /\ lastOp.res = Validate(lastOp.entry)
                      /\ ~exists
                      /\ dirExists = prevDirExists
          [] OTHER -> ~exists /\ dirExists = prevDirExists

\* An upsert found neither the file nor its directory and created both.
C18_Witness ==
    /\ lastOp.kind = "upsert"
    /\ ~prevExists
    /\ ~prevDirExists
    /\ exists
    /\ dirExists
    /\ file # <<>>

\* A delete found neither the file nor its directory and created neither.
C18_WitnessDelete ==
    /\ lastOp.kind = "delete"
    /\ ~prevDirExists
    /\ ~dirExists
    /\ ~exists

\* C19: an upsert or update that replaces a located block leaves every line
\* above the block's header where it stood, the lines above the first host
\* header among them, and every line from the block's end on unchanged and in
\* order, moved by the change in length; the lines between are the rendered
\* entry.
C19_ReplaceKeepsOutside ==
    RewroteBlock =>
        LET P == PrevLines
            s == FirstNamed(P, TargetName)
            e == BlockEnd(P, s)
            block == RenderHostEntryLines(lastOp.entry)
            d == Len(block) - (e - s)
        IN /\ Len(NewLines) = Len(P) + d
           /\ \A i \in 1..(s - 1) : KeptAt(i, 0)
           /\ \A i \in e..Len(P) : KeptAt(i, d)
           /\ SubSeq(NewLines, s, s + Len(block) - 1) = block

\* The block replaced stands below a line that precedes every host header
\* and above another block, and the rendered entry has another length.
C19_Witness ==
    /\ RewroteBlock
    /\ LET P == PrevLines
           s == FirstNamed(P, TargetName)
           e == BlockEnd(P, s)
       IN /\ s > 1
          /\ \A k \in 1..(s - 1) : ~IsHostHeader(P[k])
          /\ Tokens(P[1]) # <<>>
          /\ e <= Len(P)
          /\ Len(NewLines) # Len(P)

\* The value of the field written under keyword k.
FieldOf(e, k) ==
    CASE k = "HostName" -> e.hostname
      [] k = "User" -> e.user
      [] k = "Port" -> e.port
      [] k = "IdentityFile" -> e.identity_file
      [] k = "ProxyCommand" -> e.proxy_command

\* One two-space-indented line for each recognised field that is non-empty
\* after trimming, in the order of CanonKeywords.
KeywordLines(e) ==
    LET K == {r \in 1..Len(CanonKeywords) : Trim(FieldOf(e, CanonKeywords[r])) # <<>>} IN
    [i \in 1..Cardinality(K) |->
        <<" ", " ", CanonKeywords[NthOf(K, i)], " ">>
        \o Trim(FieldOf(e, CanonKeywords[NthOf(K, i)]))]

\* The header, the keyword lines and the extra lines of an entry.
BlockBody(e) == << <<"Host", " ">> \o Trim(e.host) >> \o KeywordLines(e) \o e.extra

BlankCount(L) == Cardinality({i \in 1..Len(L) : L[i] = <<>>})

TrailingBlanks(L) ==
    Cardinality({i \in 1..Len(L) : \A k \in i..Len(L) : L[k] = <<>>})

\* The last operation was a successful delete.
Deleted ==
    /\ lastOp.kind = "delete"
    /\ lastOp.res = "ok"

\* The last operation was a successful delete of the name a successful add
\* had just added, to a file that held no block of that name.
ClosedCycle ==
    /\ Deleted
    /\ lastOp.entry # DefaultEntry
    /\ lastOp.entry.host = lastOp.host
    /\ ~HasBlock(Lines(baseFile), lastOp.host)

\* C21 as claimed: the lines a successful delete leaves never end with a
\* blank line, and a cycle of add and delete leaves no more blank lines than
\* there were.
C21_DeleteNeverEndsBlank ==
    /\ Deleted => TrailingBlanks(NewLines) = 0
    /\ ClosedCycle => BlankCount(NewLines) <= BlankCount(Lines(baseFile))

\* C21: a successful delete of the last block of the file trims the blank
\* lines the removal leaves at the end, so that the result does not end with
\* a blank line; a successful delete of a block that another block follows
\* removes the span and nothing else, so that the file ends as it did, with
\* blank lines when it did; and a cycle of add and delete leaves no more
\* blank lines than there were.
C21_DeleteTrimsAtEnd ==
    /\ Deleted =>
          LET P == PrevLines
              s == FirstNamed(P, lastOp.host)
              e == BlockEnd(P, s)
          IN IF e = Len(P) + 1
             THEN /\ TrailingBlanks(NewLines) = 0
                  /\ \E n \in 0..(s - 1) :
                        /\ NewLines = SubSeq(P, 1, n)
                        /\ \A k \in (n + 1)..(s - 1) : P[k] = <<>>
             ELSE /\ NewLines = SubSeq(P, 1, s - 1) \o SubSeq(P, e, Len(P))
                  /\ TrailingBlanks(NewLines) = TrailingBlanks(P)
    /\ ClosedCycle =>
          /\ BlankCount(NewLines) <= BlankCount(Lines(baseFile))
          /\ TrailingBlanks(NewLines) = 0

\* The second cycle of add and delete on a file that ended with a blank line:
\* the blank line added with the block is gone.
C21_Witness ==
    /\ ClosedCycle
    /\ ops = 4
    /\ Len(PrevLines) > Len(Lines(baseFile)) + 3
    /\ Headers(NewLines) # {}
    /\ TrailingBlanks(NewLines) = 0

\* A delete of a block that another block follows left the blank lines that
\* end the file.
C21_WitnessNotLast ==
    /\ Deleted
    /\ BlockEnd(PrevLines, FirstNamed(PrevLines, lastOp.host)) <= Len(PrevLines)
    /\ TrailingBlanks(NewLines) > 0

\* The spellings, in the model's atoms, of each recognised keyword.
Spellings(k) ==
    CASE k = "HostName" -> {"HostName", "Hostname", "hostname"}
      [] k = "User" -> {"User", "user"}
      [] k = "Port" -> {"Port", "port"}
      [] k = "IdentityFile" -> {"IdentityFile", "identityfile"}
      [] k = "ProxyCommand" -> {"ProxyCommand", "proxycommand"}

\* The line sets the field of keyword k: its first token is k in any case.
SetsField(line, k) ==
    /\ Tokens(line) # <<>>
    /\ Len(Tokens(line)[1]) = 1
    /\ Tokens(line)[1][1] \in Spellings(k)

Recognised(line) == \E r \in 1..Len(CanonKeywords) : SetsField(line, CanonKeywords[r])

\* The lines of L at the indices of K, in order, trailing whitespace dropped.
TrimmedAt(L, K) == [i \in 1..Cardinality(K) |-> TrimEnd(L[NthOf(K, i)])]

\* C22: in a block, a recognised keyword (hostname, user, port, identityfile,
\* proxycommand, in any case) that occurs more than once leaves in the
\* record's field the value of its last occurrence, a keyword that does not
\* occur leaves the field empty, and extra holds the other lines of the
\* block and none that carries a recognised keyword.
C22_LastOccurrenceWins ==
    lastOp.kind = "load" =>
        LET L == Lines(file) IN
        \A i \in 1..Len(entries) :
            LET s == NthOpener(L, i)
                body == (s + 1)..(SectionEnd(L, s) - 1)
            IN /\ \A r \in 1..Len(CanonKeywords) :
                     LET k == CanonKeywords[r]
                         K == {j \in body : SetsField(L[j], k)}
                     IN FieldOf(entries[i], k) =
                           IF K = {} THEN <<>>
                           ELSE JoinSpace(Tail(Tokens(L[NthOf(K, Cardinality(K))])))
               /\ entries[i].extra = TrimmedAt(L, {j \in body : ~Recognised(L[j])})

\* A block with the keyword HostName twice, in two spellings.
C22_Witness ==
    /\ lastOp.kind = "load"
    /\ Len(Lines(file)) = 3
    /\ OpensRecord(Lines(file)[1])
    /\ Tokens(Lines(file)[2]) = << <<"HostName">>, <<"1">> >>
    /\ Tokens(Lines(file)[3]) = << <<"hostname">>, <<"2">> >>
    /\ Len(entries) = 1
    /\ entries[1].hostname = <<"2">>
    /\ entries[1].extra = <<>>

\* `selected` is an index into the host list whenever the list is not empty.
SelectedValid == app.hosts # <<>> => app.selected \in 0..(Len(app.hosts) - 1)

\* C23: in the UI controller the selected index is a valid index into the
\* host list whenever the list is not empty, after any sequence of calls,
\* saves among them; next moves from the last index to index 0 and otherwise
\* one further, previous moves from index 0 to the last index and otherwise
\* one back, and on an empty list both change nothing.
C23_SelectionValid ==
    /\ []SelectedValid
    /\ [][ /\ lastOp'.kind = "next" =>
                IF app.hosts = <<>> THEN app' = app
                ELSE app' = [app EXCEPT !.selected =
                                IF app.selected = Len(app.hosts) - 1 THEN 0
                                ELSE app.selected + 1]
           /\ lastOp'.kind = "previous" =>
                IF app.hosts = <<>> THEN app' = app
                ELSE app' = [app EXCEPT !.selected =
                                IF app.selected = 0 THEN Len(app.hosts) - 1
                                ELSE app.selected - 1] ]_vars

\* After a save, next has moved the selection from the last record of the
\* list to the first.
C23_Witness ==
    /\ lastOp.kind = "next"
    /\ Len(app.hosts) = 3
    /\ app.selected = 0
    /\ app.status # <<>>
    /\ SelectedValid

\* next and previous were called on an empty list.
C23_WitnessEmpty ==
    /\ lastOp.kind \in {"next", "previous"}
    /\ app.hosts = <<>>
    /\ app.selected = 0

\* C24: save_form in Edit or New mode with a form entry that validate
\* rejects leaves the form open in the same mode with form_error set to the
\* reason, keeps the form entry and the original host name, and touches no
\* file; the state returns to Normal only when the file operation succeeded
\* and the reload after it succeeded, the host list then being the records
\* of the file written.
C24_InvalidSaveKeepsForm ==
    [][ (lastOp'.kind = "save_form" /\ app.state # "Normal") =>
          /\ Validate(app.form_entry) # "ok" =>
                /\ app' = [app EXCEPT !.form_error = <<Validate(app.form_entry)>>]
                /\ app'.form_error # <<>>
                /\ file' = file
                /\ exists' = exists
                /\ dirExists' = dirExists
          /\ app'.state = "Normal" =>
                /\ Validate(app.form_entry) = "ok"
                /\ exists'
                /\ HasBlock(Lines(file'), Trim(app.form_entry.host))
                /\ app'.hosts = LoadHostEntries(exists', file')
          /\ app'.state # "Normal" =>
                /\ app'.state = app.state
                /\ app'.form_error # <<>>
                /\ app'.form_entry = app.form_entry
                /\ app'.original_host_name = app.original_host_name
                /\ app'.hosts = app.hosts ]_vars

\* A save in Edit mode of an entry whose host holds a wildcard was refused.
C24_Witness ==
    /\ lastOp.kind = "save_form"
    /\ app.state = "Edit"
    /\ Validate(lastOp.entry) # "ok"
    /\ app.form_error = <<Validate(lastOp.entry)>>
    /\ app.form_entry = lastOp.entry
    /\ app.original_host_name # <<>>
    /\ file = prevFile
    /\ file # <<>>

\* No two Host lines that open a record carry the same name.
UniqueOpeners(L) ==
    \A i, j \in Openers(L) : HeaderName(L[i]) = HeaderName(L[j]) => i = j

\* C25 as claimed: in a file whose named hosts are distinct, the span
\* find_host_block returns for the host of a parsed record is the record's
\* Host line and the lines the parser read into the record: it ends where
\* the parser closes the record, at the next Host line of any kind.
C25_ParserAndLocatorAgree ==
    lastOp.kind = "find" =>
        LET L == Lines(file) IN
        UniqueOpeners(L) =>
            \A s \in Openers(L) :
                HeaderName(L[s]) = lastOp.host => span = <<s, SectionEnd(L, s)>>

\* A record was updated with itself and lines the parser gave to no record
\* are gone: the span of the block ran over a Host line without argument.
C25_EditDropsLines ==
    /\ lastOp.kind = "edit"
    /\ lastOp.res = "ok"
    /\ ops = 1
    /\ \E k \in 1..Len(PrevLines) : PrevLines[k] = <<"Host">>
    /\ \A j \in 1..Len(NewLines) : NewLines[j] # <<"Host">>

-----------------------------------------------------------------------------
(* C26 *)

\* The last step was a parse-and-update cycle of kind `kind` that succeeded
\* and came after another cycle on the same record.
RepeatedEdit(kind) ==
    /\ lastOp.kind = kind
    /\ lastOp.res = "ok"
    /\ ops >= 2

\* C26: edit cycles are stable: for a parsed record R that passes validation,
\* parse then update(R.host, R) done a second time leaves the file exactly as
\* the first such cycle left it, in the editor of ssh_config.rs and in the
\* one of config.rs alike; repeated edits add no blank lines.
C26_EditCyclesStable ==
    (RepeatedEdit("edit") \/ RepeatedEdit("config_edit")) => file = prevFile

\* The part of C26 that holds: the cycles of ssh_config.rs are stable.
C26_StableInSshConfig ==
    RepeatedEdit("edit") => file = prevFile

\* A second cycle of ssh_config.rs on a file its first cycle changed.
C26_StableWitness ==
    /\ RepeatedEdit("edit")
    /\ ops = 2
    /\ prevFile # baseFile
    /\ file = prevFile

\* Each cycle of config.rs adds a blank line after the block it edits.
C26_ConfigAddsBlank ==
    /\ RepeatedEdit("config_edit")
    /\ ops = 3
    /\ BlankCount(NewLines) = BlankCount(PrevLines) + 1
    /\ Len(NewLines) = Len(Lines(baseFile)) + 3

-----------------------------------------------------------------------------
(* C27 *)

\* The last operation was an add or an upsert that succeeded.
Wrote == lastOp.kind \in {"add", "upsert"} /\ lastOp.res = "ok"

\* The lines of `L` without the blank lines at its end.
WithoutBlankTail(L) == SubSeq(L, 1, Len(L) - TrailingBlanks(L))

\* The record `r` carries the values of the entry `e` after trimming, under
\* the host `h`; blank lines at the end of extra are not compared.
ReadsBack(r, e, h) ==
    /\ r.host = h
    /\ r.hostname = Trim(e.hostname)
    /\ r.user = Trim(e.user)
    /\ r.port = Trim(e.port)
    /\ r.identity_file = Trim(e.identity_file)
    /\ r.proxy_command = Trim(e.proxy_command)
    /\ WithoutBlankTail(r.extra)
         = WithoutBlankTail([i \in 1..Len(e.extra) |-> TrimEnd(e.extra[i])])

\* C27: read-your-write: after a successful upsert or add of entry e, parsing
\* the file yields a record whose host equals e.host and whose hostname, user,
\* port, identity file, proxy command and extra equal e's values after
\* trimming, and find_host_block locates a block for e.host.
C27_ReadYourWrite ==
    Wrote =>
        LET e == lastOp.entry
            loaded == LoadHostEntries(exists, file)
        IN /\ \E i \in 1..Len(loaded) : ReadsBack(loaded[i], e, e.host)
           /\ FindHostBlock(NewLines, e.host) # <<>>

\* What does hold: the entry is read back, and located, under its trimmed
\* host.
C27_ReadsBackTrimmedHost ==
    Wrote =>
        LET e == lastOp.entry
            loaded == LoadHostEntries(exists, file)
        IN /\ \E i \in 1..Len(loaded) : ReadsBack(loaded[i], e, Trim(e.host))
           /\ FindHostBlock(NewLines, Trim(e.host)) # <<>>

\* An entry whose host carries whitespace was written and is not located.
C27_WrittenNotLocated ==
    /\ Wrote
    /\ lastOp.entry.host # Trim(lastOp.entry.host)
    /\ FindHostBlock(NewLines, lastOp.entry.host) = <<>>
    /\ HasBlock(NewLines, Trim(lastOp.entry.host))

\* The record read back holds a blank line in extra that the entry did not.
C27_ExtraGainsBlank ==
    /\ Wrote
    /\ lastOp.entry.extra = <<>>
    /\ \E i \in 1..Len(LoadHostEntries(exists, file)) :
          /\ LoadHostEntries(exists, file)[i].host = lastOp.entry.host
          /\ LoadHostEntries(exists, file)[i].extra = << <<>> >>

-----------------------------------------------------------------------------
(* C28 *)

DeleteOfAdded ==
    /\ lastOp.kind = "delete"
    /\ lastOp.entry # DefaultEntry
    /\ lastOp.entry.host = lastOp.host

C28_DeleteAfterAddFails ==
    /\ lastOp.kind = "delete"
    /\ lastOp.res # "ok"
    /\ lastOp.host # Trim(lastOp.host)
    /\ HasBlock(NewLines, Trim(lastOp.host))
    /\ ~HasBlock(Lines(baseFile), Trim(lastOp.host))
    /\ file = prevFile

C28_WitnessExact ==
    /\ ClosedCycle
    /\ Lines(baseFile) # <<>>
    /\ TrailingBlanks(Lines(baseFile)) = 0
    /\ Len(PrevLines) > Len(Lines(baseFile)) + Len(RenderHostEntryLines(lastOp.entry))
    /\ NewLines = Lines(baseFile)

-----------------------------------------------------------------------------
(* C29 *)

\* The lines `P` with the first block named as `e.host` replaced in place by
\* the header and keyword lines of `e` and one blank line.
ReplacedInPlace(P, e) ==
    LET s == FirstNamed(P, e.host)
        t == BlockEnd(P, s)
    IN SubSeq(P, 1, s - 1) \o BlockBody(e) \o << <<>> >> \o SubSeq(P, t, Len(P))

\* C29: saving the form in New mode uses upsert, not add: when the typed host
\* name is the name of an existing block, the form entry has no extra lines,
\* the save reports no duplicate, and unless the I/O fails it succeeds and
\* replaces that block in place with the form entry, appending no second
\* block.
C29_NewSaveUpserts ==
    [][ (lastOp'.kind = "save_form" /\ app.state = "New"
         /\ Validate(app.form_entry) = "ok"
         /\ HasBlock(Lines(file), app.form_entry.host)) =>
          LET e == app.form_entry
              P == Lines(file)
          IN /\ e.extra = <<>>
             /\ lastOp'.res \in {"ok", "io error", "reload failed"}
             /\ lastOp'.res = "io error" => file' = file
             /\ lastOp'.res # "io error" =>
                   /\ Lines(file') = ReplacedInPlace(P, e)
                   /\ Cardinality(NamedHeaders(Lines(file'), e.host))
                        = Cardinality(NamedHeaders(P, e.host))
                   /\ Cardinality(Headers(Lines(file'))) = Cardinality(Headers(P))
             /\ lastOp'.res = "ok" =>
                   /\ app'.state = "Normal"
                   /\ app'.form_error = <<>>
                   /\ app'.status = <<"created">>
                   /\ app'.hosts = LoadHostEntries(exists', file') ]_vars

\* A save in New mode under the name of a block the file held: the block was
\* replaced, its extra lines are gone, no block was added.
C29_Witness ==
    /\ lastOp.kind = "save_form"
    /\ lastOp.res = "ok"
    /\ app.status = <<"created">>
    /\ HasBlock(PrevLines, lastOp.entry.host)
    /\ NewLines = ReplacedInPlace(PrevLines, lastOp.entry)
    /\ Len(NewLines) < Len(PrevLines)
    /\ Cardinality(Headers(NewLines)) = Cardinality(Headers(PrevLines))

-----------------------------------------------------------------------------
(* C30 *)

\* The fields of the form agree with the state of the controller.
FormAgreesWithState ==
    /\ app.state \in {"Normal", "Edit", "New"}
    /\ app.state = "Normal" =>
          /\ app.form_entry = DefaultEntry
          /\ app.form_error = <<>>
          /\ app.original_host_name = <<>>
    /\ app.state = "Edit" =>
          /\ app.original_host_name # <<>>
          /\ \E i \in 1..Len(app.hosts) : app.hosts[i].host = app.original_host_name[1]
    /\ app.state = "New" => app.original_host_name = <<>>

\* The calls that work on the form.
FormOps ==
    { "focus_next_field", "focus_previous_field", "handle_form_input",
      "handle_form_backspace", "save_form" }

\* C30: in every reachable state of the controller, Normal implies the form
\* entry is the empty default, form_error is none and the original host name
\* is none; Edit implies the original host name is the host of the record
\* that was selected when edit mode was entered (set by enter_edit_mode, kept
\* by every other call); New implies the original host name is none; and
\* focus change, character input, backspace and save change nothing while
\* the state is Normal.
C30_ControllerInvariants ==
    /\ []FormAgreesWithState
    /\ [][ /\ (lastOp'.kind = "enter_edit_mode" /\ app'.state = "Edit") =>
                /\ SelectedHost(app) # <<>>
                /\ app'.original_host_name = <<SelectedHost(app)[1].host>>
                /\ app'.form_entry = SelectedHost(app)[1]
           /\ (lastOp'.kind # "enter_edit_mode" /\ app'.state = "Edit") =>
                /\ app.state = "Edit"
                /\ app'.original_host_name = app.original_host_name
           /\ (lastOp'.kind \in FormOps /\ app.state = "Normal") =>
                /\ app' = app
                /\ file' = file
                /\ exists' = exists
                /\ dirExists' = dirExists ]_vars

\* Edit mode was entered on a record that is not the first, and the host in
\* the form was changed since: the original host name is still that record's.
C30_Witness ==
    /\ app.state = "Edit"
    /\ app.selected > 0
    /\ app.original_host_name = <<app.hosts[app.selected + 1].host>>
    /\ app.form_entry.host # app.original_host_name[1]
    /\ lastOp.kind = "handle_form_input"

\* A save was called in Normal state, after a form was cancelled.
C30_WitnessNormalSave ==
    /\ app.state = "Normal"
    /\ lastOp.kind = "save_form"
    /\ lastOp.res = "inactive"
    /\ ops > 2
    /\ app.form_entry = DefaultEntry
    /\ file = prevFile

\* New mode was entered from Edit mode: the original host name is cleared.
C30_WitnessNew ==
    /\ app.state = "New"
    /\ lastOp.kind = "enter_new_mode"
    /\ ops > 1
    /\ app.hosts # <<>>
    /\ app.original_host_name = <<>>

=============================================================================
